---- MODULE Spec2Model ----
(***************************************************************************)
(* A model of the CHIP-8 emulator of petersid2022/chip8.                   *)
(*                                                                         *)
(* The machine is the struct CPU of package chip8 (Memory, V, I, Pc, the   *)
(* two timers, Display, Stack, Stack_pointer, Keypad, DrawFlag, Opcode).   *)
(* Its methods Init, LoadRom and EmulateCycle are translated statement by  *)
(* statement, with Go's fixed-width unsigned arithmetic and Go's run-time  *)
(* panic on an array index out of range.  The driver is the function run   *)
(* of main.go: construct, Init, LoadRom, then the emulation loop (poll     *)
(* events, EmulateCycle, render when DrawFlag is set, SetKeys, delay).     *)
(***************************************************************************)
EXTENDS Integers, Sequences, FiniteSets, TLC

\* ------------------------------------------------------------------------
\* Sizes fixed by the declarations of struct CPU
\* ------------------------------------------------------------------------
MemSize == 4096

NumRegs == 16

StackSize == 16

NumKeys == 16

DisplayRows == 32

DisplayCols == 64

ProgStart == 512

FontLen == 80

Uint8 == 256

Uint16 == 65536

\* ------------------------------------------------------------------------
\* Bounds of the exploration
\* ------------------------------------------------------------------------
\* value of Stack_pointer up to which the emulation is followed
MaxCalls == 17

\* ------------------------------------------------------------------------
\* Bit operations on unsigned integers
\* ------------------------------------------------------------------------
RECURSIVE BitAnd(_, _)
BitAnd(a, b) ==
    IF a = 0 \/ b = 0 THEN 0
    ELSE (a % 2) * (b % 2) + 2 * BitAnd(a \div 2, b \div 2)

RECURSIVE BitOr(_, _)
BitOr(a, b) ==
    IF a = 0 THEN b
    ELSE IF b = 0 THEN a
    ELSE (IF a % 2 = 1 \/ b % 2 = 1 THEN 1 ELSE 0) + 2 * BitOr(a \div 2, b \div 2)

RECURSIVE BitXor(_, _)
BitXor(a, b) ==
    IF a = 0 THEN b
    ELSE IF b = 0 THEN a
    ELSE ((a + b) % 2) + 2 * BitXor(a \div 2, b \div 2)

\* the byte sequence of a list of 16-bit instruction words, big-endian
Bytes(words) ==
    [i \in 1..(2 * Len(words)) |->
        IF i % 2 = 1 THEN words[(i + 1) \div 2] \div 256
                     ELSE words[i \div 2] % 256]

\* data followed by zero bytes up to length n, the last byte being 'last'
PadTo(data, n, last) ==
    [i \in 1..n |-> IF i <= Len(data) THEN data[i]
                    ELSE IF i = n THEN last ELSE 0]

\* ------------------------------------------------------------------------
\* The built-in glyph set
\* ------------------------------------------------------------------------
fontSet ==
    << 240, 144, 144, 144, 240,
       32, 96, 32, 32, 112,
       240, 16, 240, 128, 240,
       240, 16, 240, 16, 240,
       144, 144, 240, 16, 16,
       240, 128, 240, 16, 240,
       240, 128, 240, 144, 240,
       240, 16, 32, 64, 64,
       240, 144, 240, 144, 240,
       240, 144, 240, 16, 240,
       240, 144, 240, 144, 144,
       224, 144, 224, 144, 224,
       240, 128, 128, 128, 240,
       224, 144, 144, 144, 224,
       240, 128, 240, 128, 240,
       240, 128, 240, 128, 128 >>

\* ------------------------------------------------------------------------
\* The machine: struct CPU, zero-valued as chip8.CPU{} constructs it, plus
\* the two things a method call leaves behind outside the struct: the panic
\* it raised (if any) and the lines it printed.
\* ------------------------------------------------------------------------
NoPanic == "none"

ZeroCPU ==
    [ Memory        |-> [a \in 0..(MemSize - 1) |-> 0],
      Opcode        |-> 0,
      V             |-> [r \in 0..(NumRegs - 1) |-> 0],
      I             |-> 0,
      Pc            |-> 0,
      Delay_timer   |-> 0,
      Sound_timer   |-> 0,
      Display       |-> [r \in 0..(DisplayRows - 1) |->
                            [c \in 0..(DisplayCols - 1) |-> 0]],
      Stack_pointer |-> 0,
      Stack         |-> [s \in 0..(StackSize - 1) |-> 0],
      Keypad        |-> [k \in 0..(NumKeys - 1) |-> 0],
      DrawFlag      |-> FALSE,
      panic         |-> NoPanic,
      out           |-> << >> ]

\* a run-time panic: the method stops where it is
Panic(m, what) == [m EXCEPT !.panic = what]

\* a line written with the fmt package to standard output
Emit(m, msg, word) == [m EXCEPT !.out = Append(@, [msg |-> msg, word |-> word])]

\* a method call starts with no panic and nothing printed
Enter(m) == [m EXCEPT !.panic = NoPanic, !.out = << >>]

\* ------------------------------------------------------------------------
\* func (cpu *CPU) Init()
\* ------------------------------------------------------------------------
\* Init without the loop "Clear Memory"
CPU_Init_KeepsMemory(m) ==
    [m EXCEPT
        !.Pc            = ProgStart,
        !.Opcode        = 0,
        !.Stack_pointer = 0,
        !.I             = 0,
        !.Display       = [r \in 0..(DisplayRows - 1) |->
                              [c \in 0..(DisplayCols - 1) |-> 0]],
        !.Stack         = [s \in 0..(StackSize - 1) |-> 0],
        !.V             = [r \in 0..(NumRegs - 1) |-> 0],
        !.Memory        = [a \in 0..(MemSize - 1) |->
                              IF a < FontLen THEN fontSet[a + 1] ELSE m.Memory[a]],
        !.Delay_timer   = 0,
        !.Sound_timer   = 0]

CPU_Init(m) ==
    [m EXCEPT
        !.Pc            = ProgStart,
        !.Opcode        = 0,
        !.Stack_pointer = 0,
        !.I             = 0,
        !.Display       = [r \in 0..(DisplayRows - 1) |->
                              [c \in 0..(DisplayCols - 1) |-> 0]],
        !.Stack         = [s \in 0..(StackSize - 1) |-> 0],
        !.V             = [r \in 0..(NumRegs - 1) |-> 0],
        !.Memory        = [a \in 0..(MemSize - 1) |->
                              IF a < FontLen THEN fontSet[a + 1] ELSE 0],
        !.Delay_timer   = 0,
        !.Sound_timer   = 0]

\* ------------------------------------------------------------------------
\* func (cpu *CPU) LoadRom(filename string)
\* ------------------------------------------------------------------------
\* LoadRom with the loop bounded by the end of Memory: the program is cut
\* and success is reported
LoadRom_Truncates(m, file) ==
    IF ~file.exists
    THEN Panic(m, "ReadFile")
    ELSE LET data == file.data
         IN  Emit([m EXCEPT !.Memory =
                      [a \in 0..(MemSize - 1) |->
                          IF a >= ProgStart /\ a - ProgStart < Len(data)
                          THEN data[a - ProgStart + 1]
                          ELSE m.Memory[a]]],
                  "ROM loaded successfully", 0)

\* LoadRom that also resets the keypad
LoadRom_ClearsKeypad(m, file) ==
    IF ~file.exists
    THEN Panic(m, "ReadFile")
    ELSE LET data    == file.data
             fits    == IF Len(data) <= MemSize - ProgStart
                        THEN Len(data) ELSE MemSize - ProgStart
             written == [m EXCEPT !.Memory =
                            [a \in 0..(MemSize - 1) |->
                                IF a >= ProgStart /\ a - ProgStart < fits
                                THEN data[a - ProgStart + 1]
                                ELSE m.Memory[a]],
                                  !.Keypad = [k \in 0..(NumKeys - 1) |-> 0]]
         IN  IF Len(data) > MemSize - ProgStart
             THEN Panic(written, "Memory")
             ELSE Emit(written, "ROM loaded successfully", 0)

\* the loop "for i := 0; i < len(data); i++ { cpu.Memory[i+512] = data[i] }":
\* the cells written before the index leaves the array stay written
LoadRom(m, file) ==
    IF ~file.exists
    THEN Panic(m, "ReadFile")
    ELSE LET data    == file.data
             fits    == IF Len(data) <= MemSize - ProgStart
                        THEN Len(data) ELSE MemSize - ProgStart
             written == [m EXCEPT !.Memory =
                            [a \in 0..(MemSize - 1) |->
                                IF a >= ProgStart /\ a - ProgStart < fits
                                THEN data[a - ProgStart + 1]
                                ELSE m.Memory[a]]]
         IN  IF Len(data) > MemSize - ProgStart
             THEN Panic(written, "Memory")
             ELSE Emit(written, "ROM loaded successfully", 0)

\* ------------------------------------------------------------------------
\* func (cpu *CPU) EmulateCycle(): operand fields of the instruction word
\* ------------------------------------------------------------------------
\* (Opcode & 0xF000)
Group(op) == op \div 4096

\* (Opcode & 0x0F00) >> 8
X(op) == (op \div 256) % 16

\* (Opcode & 0x00F0) >> 4
Y(op) == (op \div 16) % 16

\* (Opcode & 0x000F)
N(op) == op % 16

\* (Opcode & 0x00FF)
KK(op) == op % 256

\* (Opcode & 0x0FFF)
NNN(op) == op % 4096

\* (Opcode & 0x0F00) >> 4, the index the group 0x8 cases 0..3 use for Vx
XShift4(op) == X(op) * 16

\* (Opcode & 0x00F0), the index the group 0x8 cases 0..3 use for Vy
YMask(op) == Y(op) * 16

\* cpu.Pc = cpu.Pc + k on a uint16
AdvancePc(m, k) == [m EXCEPT !.Pc = (m.Pc + k) % Uint16]

\* ------------------------------------------------------------------------
\* Group 0x0: switch on Opcode & 0x000F
\* ------------------------------------------------------------------------
\* case 0x0000: "for i < 64 { for j < 32 { Display[i][j] = 0 } }" on a
\* [32][64] array: the cells reached before the row index leaves the array
\* are cleared, then the index panics
ClearOuter == 64

ClearInner == 32

Op00E0(m) ==
    LET d == [r \in 0..(DisplayRows - 1) |->
                [c \in 0..(DisplayCols - 1) |->
                    IF r < ClearOuter /\ c < ClearInner THEN 0
                    ELSE m.Display[r][c]]]
        cleared == [m EXCEPT !.Display = d]
    IN  IF ClearOuter > DisplayRows \/ ClearInner > DisplayCols
        THEN Panic(cleared, "Display")
        ELSE AdvancePc(cleared, 2)

\* case 0x000E: the decrement is on a uint8 and happens before the index
Op00EE(m) ==
    LET sp == (m.Stack_pointer - 1) % Uint8
        dec == [m EXCEPT !.Stack_pointer = sp]
    IN  IF sp >= StackSize
        THEN Panic(dec, "Stack")
        ELSE [dec EXCEPT !.Pc = (m.Stack[sp] + 2) % Uint16]

\* default of group 0x0: prints, nothing else
Unknown0(m) == Emit(m, "Unknown Opcode [0x0000]", m.Opcode)

\* ------------------------------------------------------------------------
\* Groups 0x1 .. 0x7
\* ------------------------------------------------------------------------
Op1NNN(m) == [m EXCEPT !.Pc = NNN(m.Opcode)]

\* cpu.Stack[cpu.Pc] = cpu.Pc; Stack_pointer + 1 on a uint8; Pc = nnn
Op2NNN(m) ==
    IF m.Pc >= StackSize
    THEN Panic(m, "Stack")
    ELSE [m EXCEPT !.Stack[m.Pc]    = m.Pc,
                   !.Stack_pointer = (m.Stack_pointer + 1) % Uint8,
                   !.Pc            = NNN(m.Opcode)]

Op3XKK(m) ==
    IF m.V[X(m.Opcode)] = KK(m.Opcode) THEN AdvancePc(m, 4) ELSE AdvancePc(m, 2)

\* 4xkk skipping on equality, as 3xkk does
Op4XKK_Equal(m) ==
    IF m.V[X(m.Opcode)] = KK(m.Opcode) THEN AdvancePc(m, 4) ELSE AdvancePc(m, 2)

Op4XKK(m) ==
    IF m.V[X(m.Opcode)] # KK(m.Opcode) THEN AdvancePc(m, 4) ELSE AdvancePc(m, 2)

\* case 0x5000 does not look at the low nibble
Op5XY0(m) ==
    IF m.V[X(m.Opcode)] = m.V[Y(m.Opcode)] THEN AdvancePc(m, 4) ELSE AdvancePc(m, 2)

\* 6xkk selecting the register with the third nibble
Op6XKK_WrongNibble(m) == AdvancePc([m EXCEPT !.V[Y(m.Opcode)] = KK(m.Opcode)], 2)

Op6XKK(m) == AdvancePc([m EXCEPT !.V[X(m.Opcode)] = KK(m.Opcode)], 2)

\* 7xkk that also records the carry in VF
Op7XKK_SetsCarry(m) ==
    LET f == [m EXCEPT !.V[15] = IF m.V[X(m.Opcode)] + KK(m.Opcode) > 255
                                 THEN 1 ELSE 0]
    IN  AdvancePc([f EXCEPT !.V[X(m.Opcode)] =
                      (m.V[X(m.Opcode)] + KK(m.Opcode)) % Uint8], 2)

Op7XKK(m) ==
    AdvancePc([m EXCEPT !.V[X(m.Opcode)] = (@ + KK(m.Opcode)) % Uint8], 2)

\* ------------------------------------------------------------------------
\* Group 0x8: switch on Opcode & 0x000F
\* ------------------------------------------------------------------------
\* cases 0..3 index V with (Opcode&0x0F00)>>4 and (Opcode&0x00F0); both
\* operands are evaluated, and bounds-checked, before the store
IndexFaults(m) ==
    XShift4(m.Opcode) >= NumRegs \/ YMask(m.Opcode) >= NumRegs

Op8XY0(m) ==
    IF IndexFaults(m) THEN Panic(m, "V")
    ELSE AdvancePc([m EXCEPT !.V[XShift4(m.Opcode)] = m.V[YMask(m.Opcode)]], 2)

Op8XY1(m) ==
    IF IndexFaults(m) THEN Panic(m, "V")
    ELSE AdvancePc([m EXCEPT !.V[XShift4(m.Opcode)] =
                       BitOr(m.V[XShift4(m.Opcode)], m.V[YMask(m.Opcode)])], 2)

Op8XY2(m) ==
    IF IndexFaults(m) THEN Panic(m, "V")
    ELSE AdvancePc([m EXCEPT !.V[XShift4(m.Opcode)] =
                       BitAnd(m.V[XShift4(m.Opcode)], m.V[YMask(m.Opcode)])], 2)

Op8XY3(m) ==
    IF IndexFaults(m) THEN Panic(m, "V")
    ELSE AdvancePc([m EXCEPT !.V[XShift4(m.Opcode)] =
                       BitXor(m.V[XShift4(m.Opcode)], m.V[YMask(m.Opcode)])], 2)

\* VF is written first; the sum then reads the registers as they are
Op8XY4(m) ==
    LET x == X(m.Opcode)
        y == Y(m.Opcode)
        f == [m EXCEPT !.V[15] = IF m.V[y] > 255 - m.V[x] THEN 1 ELSE 0]
    IN  AdvancePc([f EXCEPT !.V[x] = (f.V[x] + f.V[y]) % Uint8], 2)

Op8XY5(m) ==
    LET x == X(m.Opcode)
        y == Y(m.Opcode)
        f == [m EXCEPT !.V[15] = IF m.V[y] > m.V[x] THEN 0 ELSE 1]
    IN  AdvancePc([f EXCEPT !.V[x] = (f.V[x] - f.V[y]) % Uint8], 2)

\* 8xy6 shifting Vy into Vx, the other reading of the instruction
Op8XY6_FromVy(m) ==
    LET x == X(m.Opcode)
        y == Y(m.Opcode)
        f == [m EXCEPT !.V[15] = m.V[y] % 2]
    IN  AdvancePc([f EXCEPT !.V[x] = f.V[y] \div 2], 2)

Op8XY6(m) ==
    LET x == X(m.Opcode)
        f == [m EXCEPT !.V[15] = m.V[x] % 2]
    IN  AdvancePc([f EXCEPT !.V[x] = f.V[x] \div 2], 2)

Op8XY7(m) ==
    LET x == X(m.Opcode)
        y == Y(m.Opcode)
        f == [m EXCEPT !.V[15] = IF m.V[x] > m.V[y] THEN 0 ELSE 1]
    IN  AdvancePc([f EXCEPT !.V[x] = (f.V[y] - f.V[x]) % Uint8], 2)

Op8XYE(m) ==
    LET x == X(m.Opcode)
        f == [m EXCEPT !.V[15] = m.V[x] \div 128]
    IN  AdvancePc([f EXCEPT !.V[x] = (f.V[x] * 2) % Uint8], 2)

\* default of groups 0x8 and 0xE: prints, nothing else
Invalid(m) == Emit(m, "Invalid Opcode", m.Opcode)

\* ------------------------------------------------------------------------
\* Groups 0x9 .. 0xC
\* ------------------------------------------------------------------------
\* case 0x9000 does not look at the low nibble
Op9XY0(m) ==
    IF m.V[X(m.Opcode)] # m.V[Y(m.Opcode)] THEN AdvancePc(m, 4) ELSE AdvancePc(m, 2)

OpANNN(m) == AdvancePc([m EXCEPT !.I = NNN(m.Opcode)], 2)

OpBNNN(m) == [m EXCEPT !.Pc = (NNN(m.Opcode) + m.V[0]) % Uint16]

\* Cxkk storing the random byte as drawn
OpCXKK_Unmasked(m, rnd) ==
    AdvancePc([m EXCEPT !.V[X(m.Opcode)] = rnd % Uint8], 2)

\* rnd is the value of rand.Intn(256)
OpCXKK(m, rnd) ==
    AdvancePc([m EXCEPT !.V[X(m.Opcode)] = BitAnd(rnd % Uint8, KK(m.Opcode))], 2)

\* ------------------------------------------------------------------------
\* Group 0xD: draw
\* ------------------------------------------------------------------------
\* the inner loop over xline, for the sprite byte 'pixel' of row yline
RECURSIVE DrawRow(_, _, _, _, _, _)
DrawRow(m, x, y, yline, pixel, xline) ==
    IF xline >= 8 THEN m
    ELSE IF (pixel \div (2 ^ (7 - xline))) % 2 = 0
         THEN DrawRow(m, x, y, yline, pixel, xline + 1)
         ELSE LET row == (y + (yline % Uint8)) % Uint8
                  col == (x + xline) % Uint8
              IN  IF row >= DisplayRows \/ col >= DisplayCols
                  THEN Panic(m, "Display")
                  ELSE LET hit == IF m.Display[row][col] = 1
                                  THEN [m EXCEPT !.V[15] = 1] ELSE m
                           xor == [hit EXCEPT !.Display[row][col] =
                                      BitXor(@, 1)]
                       IN  DrawRow(xor, x, y, yline, pixel, xline + 1)

\* the outer loop over yline
RECURSIVE DrawRows(_, _, _, _, _)
DrawRows(m, x, y, height, yline) ==
    IF yline >= height THEN m
    ELSE LET addr == (m.I + yline) % Uint16
         IN  IF addr >= MemSize
             THEN Panic(m, "Memory")
             ELSE LET r == DrawRow(m, x, y, yline, m.Memory[addr], 0)
                  IN  IF r.panic # NoPanic THEN r
                      ELSE DrawRows(r, x, y, height, yline + 1)

\* Dxyn that sets VF on a collision and otherwise leaves it as it was
OpDXYN_KeepsFlag(m) ==
    LET x      == m.V[X(m.Opcode)]
        y      == m.V[Y(m.Opcode)]
        height == m.V[N(m.Opcode)]
        r      == DrawRows(m, x, y, height, 0)
    IN  IF r.panic # NoPanic THEN r
        ELSE AdvancePc([r EXCEPT !.DrawFlag = TRUE], 2)

\* height := cpu.V[(cpu.Opcode & 0x000F)]
OpDXYN(m) ==
    LET x      == m.V[X(m.Opcode)]
        y      == m.V[Y(m.Opcode)]
        height == m.V[N(m.Opcode)]
        r      == DrawRows([m EXCEPT !.V[15] = 0], x, y, height, 0)
    IN  IF r.panic # NoPanic THEN r
        ELSE AdvancePc([r EXCEPT !.DrawFlag = TRUE], 2)

\* ------------------------------------------------------------------------
\* Group 0xE: switch on Opcode & 0x00FF
\* ------------------------------------------------------------------------
OpEX9E(m) ==
    LET k == m.V[X(m.Opcode)]
    IN  IF k >= NumKeys THEN Panic(m, "Keypad")
        ELSE IF m.Keypad[k] # 0 THEN AdvancePc(m, 4) ELSE AdvancePc(m, 2)

OpEXA1(m) ==
    LET k == m.V[X(m.Opcode)]
    IN  IF k >= NumKeys THEN Panic(m, "Keypad")
        ELSE IF m.Keypad[k] = 0 THEN AdvancePc(m, 4) ELSE AdvancePc(m, 2)

\* ------------------------------------------------------------------------
\* Group 0xF: switch on Opcode & 0x00FF
\* ------------------------------------------------------------------------
OpFX07(m) == AdvancePc([m EXCEPT !.V[X(m.Opcode)] = m.Delay_timer], 2)

\* "pressed": some Keypad entry is non-zero
AnyKeyDown(m) == \E k \in 0..(NumKeys - 1) : m.Keypad[k] # 0

\* the scan "for i < len(Keypad) { if Keypad[i] != 0 { V[x] = i } }" stores
\* every down key in turn, so the last one stored is the one that stays
ScannedKey(m) ==
    CHOOSE k \in 0..(NumKeys - 1) :
        /\ m.Keypad[k] # 0
        /\ \A j \in 0..(NumKeys - 1) : m.Keypad[j] # 0 => j <= k

\* Fx0A that goes on to the next instruction when no key is down
OpFX0A_Advances(m) ==
    IF AnyKeyDown(m)
    THEN AdvancePc([m EXCEPT !.V[X(m.Opcode)] = ScannedKey(m)], 2)
    ELSE AdvancePc(m, 2)

\* when no key is down the method returns at once (see EmulateCycle)
OpFX0A(m) ==
    IF AnyKeyDown(m)
    THEN AdvancePc([m EXCEPT !.V[X(m.Opcode)] = ScannedKey(m)], 2)
    ELSE m

OpFX15(m) == AdvancePc([m EXCEPT !.Delay_timer = m.V[X(m.Opcode)]], 2)

\* Fx18 that leaves the sound timer alone while a key is down
OpFX18_KeyGated(m) ==
    IF AnyKeyDown(m) THEN AdvancePc(m, 2)
    ELSE AdvancePc([m EXCEPT !.Sound_timer = m.V[X(m.Opcode)]], 2)

OpFX18(m) == AdvancePc([m EXCEPT !.Sound_timer = m.V[X(m.Opcode)]], 2)

OpFX1E(m) == AdvancePc([m EXCEPT !.I = (m.I + m.V[X(m.Opcode)]) % Uint16], 2)

OpFX29(m) == AdvancePc([m EXCEPT !.I = (m.V[X(m.Opcode)] * 5) % Uint16], 2)

\* Fx33 storing Vx / 10 as the tens digit, without the reduction modulo 10
OpFX33_TensUnreduced(m) ==
    LET v  == m.V[X(m.Opcode)]
        a0 == m.I
        a1 == (m.I + 1) % Uint16
        a2 == (m.I + 2) % Uint16
    IN  IF a0 >= MemSize \/ a1 >= MemSize \/ a2 >= MemSize THEN Panic(m, "Memory")
        ELSE AdvancePc([m EXCEPT !.Memory[a0] = v \div 100,
                                 !.Memory[a1] = v \div 10,
                                 !.Memory[a2] = (v % 100) % 10], 2)

\* three stores, each bounds-checked when it is reached
OpFX33(m) ==
    LET v  == m.V[X(m.Opcode)]
        a0 == m.I
        a1 == (m.I + 1) % Uint16
        a2 == (m.I + 2) % Uint16
    IN  IF a0 >= MemSize THEN Panic(m, "Memory")
        ELSE LET m0 == [m EXCEPT !.Memory[a0] = v \div 100]
             IN  IF a1 >= MemSize THEN Panic(m0, "Memory")
                 ELSE LET m1 == [m0 EXCEPT !.Memory[a1] = (v \div 10) % 10]
                      IN  IF a2 >= MemSize THEN Panic(m1, "Memory")
                          ELSE AdvancePc([m1 EXCEPT !.Memory[a2] =
                                             (v % 100) % 10], 2)

\* Fx55 storing V0..V(x-1) only, the loop stopping one register short
OpFX55_StopsShort(m) ==
    LET x == X(m.Opcode)
    IN  IF m.I >= MemSize THEN Panic(m, "Memory")
        ELSE LET st == [m EXCEPT !.Memory =
                           [a \in 0..(MemSize - 1) |->
                               IF a >= m.I /\ a - m.I < x
                               THEN m.V[a - m.I] ELSE m.Memory[a]]]
             IN  IF m.I + x >= MemSize THEN Panic(st, "Memory")
                 ELSE AdvancePc(st, 2)

\* Memory[I] = V[x], then Memory[I+i] = V[i] for i = 0..x; the stores made
\* before an index leaves the array stay
OpFX55(m) ==
    LET x == X(m.Opcode)
    IN  IF m.I >= MemSize THEN Panic(m, "Memory")
        ELSE LET st == [m EXCEPT !.Memory =
                           [a \in 0..(MemSize - 1) |->
                               IF a >= m.I /\ a - m.I <= x
                               THEN m.V[a - m.I] ELSE m.Memory[a]]]
             IN  IF m.I + x >= MemSize THEN Panic(st, "Memory")
                 ELSE AdvancePc(st, 2)

\* V[x] = Memory[I], then V[i] = Memory[I+i] for i = 0..x; the loads made
\* before an index leaves the array stay
OpFX65(m) ==
    LET x == X(m.Opcode)
    IN  IF m.I >= MemSize THEN Panic(m, "Memory")
        ELSE LET ld == [m EXCEPT !.V =
                           [r \in 0..(NumRegs - 1) |->
                               IF r <= x /\ m.I + r < MemSize
                               THEN m.Memory[m.I + r]
                               ELSE IF r = x THEN m.Memory[m.I]
                               ELSE m.V[r]]]
             IN  IF m.I + x >= MemSize THEN Panic(ld, "Memory")
                 ELSE AdvancePc(ld, 2)

\* default of group 0xF: prints, nothing else
UnknownF(m) == Emit(m, "Unknown Opcode [0x8000]", m.Opcode)

\* ------------------------------------------------------------------------
\* "Update timers", the tail of EmulateCycle
\* ------------------------------------------------------------------------
\* the timer update beeping in every cycle in which the sound timer is on
UpdateTimers_BeepsWhileOn(m) ==
    LET d == IF m.Delay_timer > 0
             THEN [m EXCEPT !.Delay_timer = m.Delay_timer - 1] ELSE m
    IN  IF d.Sound_timer > 0
        THEN IF d.Sound_timer = 1
             THEN [Emit(d, "BEEP!", 0) EXCEPT !.Sound_timer = d.Sound_timer - 1]
             ELSE Emit(d, "BEEP!", 0)
        ELSE d

UpdateTimers(m) ==
    LET d == IF m.Delay_timer > 0
             THEN [m EXCEPT !.Delay_timer = m.Delay_timer - 1] ELSE m
    IN  IF d.Sound_timer > 0 /\ d.Sound_timer = 1
        THEN [Emit(d, "BEEP!", 0) EXCEPT !.Sound_timer = d.Sound_timer - 1]
        ELSE d

\* ------------------------------------------------------------------------
\* EmulateCycle: fetch, decode, execute, update timers
\* ------------------------------------------------------------------------
\* cpu.Opcode = (uint16(Memory[Pc]) << 8) | uint16(Memory[Pc+1])
Fetch(m) ==
    IF m.Pc >= MemSize \/ (m.Pc + 1) % Uint16 >= MemSize
    THEN Panic(m, "Memory")
    ELSE [m EXCEPT !.Opcode = m.Memory[m.Pc] * 256 + m.Memory[(m.Pc + 1) % Uint16]]

Group0(m) ==
    CASE N(m.Opcode) = 0  -> Op00E0(m)
      [] N(m.Opcode) = 14 -> Op00EE(m)
      [] OTHER            -> Unknown0(m)

Group8(m) ==
    CASE N(m.Opcode) = 0  -> Op8XY0(m)
      [] N(m.Opcode) = 1  -> Op8XY1(m)
      [] N(m.Opcode) = 2  -> Op8XY2(m)
      [] N(m.Opcode) = 3  -> Op8XY3(m)
      [] N(m.Opcode) = 4  -> Op8XY4(m)
      [] N(m.Opcode) = 5  -> Op8XY5(m)
      [] N(m.Opcode) = 6  -> Op8XY6(m)
      [] N(m.Opcode) = 7  -> Op8XY7(m)
      [] N(m.Opcode) = 14 -> Op8XYE(m)
      [] OTHER            -> Invalid(m)

GroupE(m) ==
    CASE KK(m.Opcode) = 158 -> OpEX9E(m)
      [] KK(m.Opcode) = 161 -> OpEXA1(m)
      [] OTHER              -> Invalid(m)

GroupF(m) ==
    CASE KK(m.Opcode) = 7   -> OpFX07(m)
      [] KK(m.Opcode) = 10  -> OpFX0A(m)
      [] KK(m.Opcode) = 21  -> OpFX15(m)
      [] KK(m.Opcode) = 24  -> OpFX18(m)
      [] KK(m.Opcode) = 30  -> OpFX1E(m)
      [] KK(m.Opcode) = 41  -> OpFX29(m)
      [] KK(m.Opcode) = 51  -> OpFX33(m)
      [] KK(m.Opcode) = 85  -> OpFX55(m)
      [] KK(m.Opcode) = 101 -> OpFX65(m)
      [] OTHER              -> UnknownF(m)

\* switch cpu.Opcode & 0xF000
Execute(m, rnd) ==
    CASE Group(m.Opcode) = 0  -> Group0(m)
      [] Group(m.Opcode) = 1  -> Op1NNN(m)
      [] Group(m.Opcode) = 2  -> Op2NNN(m)
      [] Group(m.Opcode) = 3  -> Op3XKK(m)
      [] Group(m.Opcode) = 4  -> Op4XKK(m)
      [] Group(m.Opcode) = 5  -> Op5XY0(m)
      [] Group(m.Opcode) = 6  -> Op6XKK(m)
      [] Group(m.Opcode) = 7  -> Op7XKK(m)
      [] Group(m.Opcode) = 8  -> Group8(m)
      [] Group(m.Opcode) = 9  -> Op9XY0(m)
      [] Group(m.Opcode) = 10 -> OpANNN(m)
      [] Group(m.Opcode) = 11 -> OpBNNN(m)
      [] Group(m.Opcode) = 12 -> OpCXKK(m, rnd)
      [] Group(m.Opcode) = 13 -> OpDXYN(m)
      [] Group(m.Opcode) = 14 -> GroupE(m)
      [] OTHER                -> GroupF(m)

\* the Fx0A case returns from the method when no key is down
ReturnsEarly(m) ==
    /\ Group(m.Opcode) = 15
    /\ KK(m.Opcode) = 10
    /\ ~AnyKeyDown(m)

EmulateCycle(m0, rnd) ==
    LET m == Fetch(Enter(m0))
    IN  IF m.panic # NoPanic THEN m
        ELSE LET e == Execute(m, rnd)
             IN  IF e.panic # NoPanic \/ ReturnsEarly(m) THEN e
                 ELSE UpdateTimers(e)

\* the values of rand.Intn(256)
RandBytes == 0..255

\* whether EmulateCycle draws a random byte for the word at Pc
UsesRand(m) ==
    /\ m.Pc + 1 < MemSize
    /\ m.Memory[m.Pc] \div 16 = 12

\* ------------------------------------------------------------------------
\* SetKeys: called by run (main.go) on the CPU; its body is not part of the
\* sources at hand.  It replaces the 16 keypad entries by the snapshot.
\* ------------------------------------------------------------------------
SetKeys(m, snapshot) ==
    [m EXCEPT !.Keypad = [k \in 0..(NumKeys - 1) |->
                              IF snapshot[k] THEN 1 ELSE 0]]

\* ------------------------------------------------------------------------
\* main.go: mapKey, and the event handling of the emulation loop
\* ------------------------------------------------------------------------
mapKey_RowMajor(sym) ==
    CASE sym = "1" -> 0
      [] sym = "2" -> 1
      [] sym = "3" -> 2
      [] sym = "4" -> 3
      [] sym = "q" -> 4
      [] sym = "w" -> 5
      [] sym = "e" -> 6
      [] sym = "r" -> 7
      [] sym = "a" -> 8
      [] sym = "s" -> 9
      [] sym = "d" -> 10
      [] sym = "f" -> 11
      [] sym = "z" -> 12
      [] sym = "x" -> 13
      [] sym = "c" -> 14
      [] sym = "v" -> 15
      [] OTHER     -> -1

mapKey(sym) ==
    CASE sym = "1" -> 1
      [] sym = "2" -> 2
      [] sym = "3" -> 3
      [] sym = "4" -> 12
      [] sym = "q" -> 4
      [] sym = "w" -> 5
      [] sym = "e" -> 6
      [] sym = "r" -> 13
      [] sym = "a" -> 7
      [] sym = "s" -> 8
      [] sym = "d" -> 9
      [] sym = "f" -> 14
      [] sym = "z" -> 10
      [] sym = "x" -> 0
      [] sym = "c" -> 11
      [] sym = "v" -> 15
      [] OTHER     -> -1

\* the key symbols the explored event queues are made of
Syms == {"3", "d", "BACKSPACE", "ESCAPE"}

Events ==
    [type : {"KEYDOWN", "KEYUP"}, sym : Syms] \cup {[type |-> "QUIT", sym |-> ""]}

HandleEvent_Swapped(ks, ev) ==
    IF ev.type = "QUIT" THEN [keyStates |-> ks, ret |-> 0]
    ELSE IF ev.type = "KEYDOWN" /\ ev.sym = "BACKSPACE"
         THEN [keyStates |-> ks, ret |-> 0]
    ELSE IF ev.type = "KEYDOWN" /\ ev.sym = "ESCAPE"
         THEN [keyStates |-> ks, ret |-> 1]
    ELSE LET chip8Key == mapKey(ev.sym)
         IN  IF chip8Key # -1
             THEN [keyStates |-> [ks EXCEPT ![chip8Key] = (ev.type = "KEYDOWN")],
                   ret |-> -1]
             ELSE [keyStates |-> ks, ret |-> -1]

\* the body of "for event := sdl.PollEvent(); event != nil; ..." for one
\* event: ret is -1 when the loop goes on, or the value run returns
HandleEvent(ks, ev) ==
    IF ev.type = "QUIT" THEN [keyStates |-> ks, ret |-> 0]
    ELSE IF ev.type = "KEYDOWN" /\ ev.sym = "BACKSPACE"
         THEN [keyStates |-> ks, ret |-> 1]
    ELSE IF ev.type = "KEYDOWN" /\ ev.sym = "ESCAPE"
         THEN [keyStates |-> ks, ret |-> 0]
    ELSE LET chip8Key == mapKey(ev.sym)
         IN  IF chip8Key # -1
             THEN [keyStates |-> [ks EXCEPT ![chip8Key] = (ev.type = "KEYDOWN")],
                   ret |-> -1]
             ELSE [keyStates |-> ks, ret |-> -1]

NoKeys == [k \in 0..(NumKeys - 1) |-> FALSE]

\* ------------------------------------------------------------------------
\* The ROM files the menu offers
\* ------------------------------------------------------------------------
\* the instruction word with the hexadecimal digits a b c d
W(a, b, c, d) == a * 4096 + b * 256 + c * 16 + d

MaxRom == MemSize - ProgStart

RomNames ==
    {"ret", "call", "lowcall", "jumpend", "bad0", "bad8", "badE", "badF",
     "dirty", "full", "toolong", "toolong16", "missing"}

File(name) ==
    CASE name = "ret"     -> [exists |-> TRUE, data |-> Bytes(<<W(0,0,14,14)>>)]
      [] name = "call"    -> [exists |-> TRUE,
                              data |-> Bytes(<<W(2,2,0,4), W(1,2,0,2), W(0,0,14,14)>>)]
      [] name = "lowcall" -> [exists |-> TRUE,
                              data |-> Bytes(<<W(6,0,2,0), W(6,1,0,0), W(10,0,0,0),
                                               W(15,1,5,5), W(1,0,0,0)>>)]
      [] name = "jumpend" -> [exists |-> TRUE, data |-> Bytes(<<W(1,15,15,15)>>)]
      [] name = "bad0"    -> [exists |-> TRUE, data |-> Bytes(<<W(0,0,0,1)>>)]
      [] name = "bad8"    -> [exists |-> TRUE, data |-> Bytes(<<W(8,0,0,8)>>)]
      [] name = "badE"    -> [exists |-> TRUE, data |-> Bytes(<<W(14,0,0,0)>>)]
      [] name = "badF"    -> [exists |-> TRUE,
                              data |-> Bytes(<<W(6,0,0,3), W(15,0,1,5), W(15,15,15,15)>>)]
      [] name = "dirty"   -> [exists |-> TRUE,
                              data |-> Bytes(<<W(6,0,2,2), W(6,1,0,14), W(10,0,0,2),
                                               W(15,1,5,5), W(15,0,1,5), W(15,0,1,8),
                                               W(1,0,0,2), W(6,0,0,1), W(10,0,0,5),
                                               W(13,2,2,0), W(15,3,0,10), W(1,2,1,6)>>)]
      [] name = "full"    -> [exists |-> TRUE,
                              data |-> PadTo(Bytes(<<W(1,2,0,0)>>), MaxRom, 171)]
      [] name = "toolong" -> [exists |-> TRUE,
                              data |-> PadTo(Bytes(<<W(1,2,0,0)>>), MaxRom + 1, 171)]
      [] name = "toolong16" -> [exists |-> TRUE,
                              data |-> PadTo(Bytes(<<W(1,2,0,0)>>), MaxRom + 16, 171)]
      [] OTHER            -> [exists |-> FALSE, data |-> << >>]

\* ------------------------------------------------------------------------
\* State
\* ------------------------------------------------------------------------
VARIABLES
    chip8,      \* the CPU of run, with the panic and output of its last call
    at,         \* where run stands
    romName,    \* the file name showMenu returned
    keyStates,  \* the key-state array of run
    delay,      \* the package variable delay of main.go
    target_fps  \* the package variable target_fps of main.go

vars == <<chip8, at, romName, keyStates, delay, target_fps>>

\* the pacing settings, which only the menu changes
pacing == <<delay, target_fps>>

Alive == chip8.panic = NoPanic

Init ==
    /\ chip8 = ZeroCPU
    /\ at = "menu"
    /\ romName = ""
    /\ keyStates = NoKeys
    /\ delay = 100
    /\ target_fps = 60

\* the KEYDOWN handlers of showMenu for the keys i, p, j and l
MenuKeys == {"i", "p", "j", "l"}

FpsAfter(key, fps) ==
    IF key = "i" /\ fps > 0 THEN fps - 5
    ELSE IF key = "p" /\ fps < 100 THEN fps + 5
    ELSE fps

DelayAfter(key, d) ==
    IF key = "j" /\ d > 100 THEN d - 100
    ELSE IF key = "l" /\ d < 1000 THEN d + 100
    ELSE d

\* showMenu handles a KEYDOWN of one of these keys and goes on showing
MenuKey ==
    /\ at = "menu"
    /\ \E key \in MenuKeys :
          /\ target_fps' = FpsAfter(key, target_fps)
          /\ delay' = DelayAfter(key, delay)
    /\ UNCHANGED <<chip8, at, romName, keyStates>>

\* romName := showMenu(...); chip8 := chip8.CPU{}
ShowMenu ==
    /\ at = "menu"
    /\ \E name \in RomNames : romName' = name
    /\ chip8' = ZeroCPU
    /\ at' = "init"
    /\ UNCHANGED keyStates
    /\ UNCHANGED pacing

\* showMenu returns "": run returns 0
MenuQuit ==
    /\ at = "menu"
    /\ at' = "exit"
    /\ UNCHANGED <<chip8, romName, keyStates>>
    /\ UNCHANGED pacing

\* chip8.Init()
DoInit ==
    /\ at = "init"
    /\ chip8' = CPU_Init(Enter(chip8))
    /\ at' = "load"
    /\ UNCHANGED <<romName, keyStates>>
    /\ UNCHANGED pacing

\* chip8.LoadRom("./roms/" + romName); keyStates := &[16]bool{}
DoLoadRom ==
    /\ at = "load"
    /\ Alive
    /\ chip8' = LoadRom(Enter(chip8), File(romName))
    /\ keyStates' = NoKeys
    /\ at' = "poll"
    /\ UNCHANGED romName
    /\ UNCHANGED pacing

\* sdl.PollEvent() returns an event: one pass of the event loop
PollEvent ==
    /\ at = "poll"
    /\ Alive
    /\ \E ev \in Events :
          LET h == HandleEvent(keyStates, ev)
          IN  /\ keyStates' = IF h.ret = 1 THEN NoKeys ELSE h.keyStates
              /\ at' = CASE h.ret = -1 -> "poll"
                         [] h.ret = 0  -> "exit"
                         [] OTHER      -> "menu"
    /\ UNCHANGED <<chip8, romName>>
    /\ UNCHANGED pacing

\* the keys of the whole keyboard the explored runs press: the sixteen of
\* the key table and some others
KeyboardSyms ==
    {"1", "2", "3", "4", "q", "w", "e", "r", "a", "s", "d", "f", "z", "x", "c", "v",
     "5", "m", "SPACE", "RETURN"}

\* one pass of the event loop for a key of the whole keyboard, pressed by a
\* player who holds at most one key at a time
PollKeyboard ==
    /\ at = "poll"
    /\ Alive
    /\ \E ev \in [type : {"KEYDOWN", "KEYUP"}, sym : KeyboardSyms] :
          /\ ev.type = "KEYDOWN" => keyStates = NoKeys
          /\ keyStates' = HandleEvent(keyStates, ev).keyStates
    /\ UNCHANGED <<chip8, at, romName>>
    /\ UNCHANGED pacing

\* sdl.PollEvent() returns nil: the event loop ends
EventsDrained ==
    /\ at = "poll"
    /\ Alive
    /\ at' = "cycle"
    /\ UNCHANGED <<chip8, romName, keyStates>>
    /\ UNCHANGED pacing

\* chip8.EmulateCycle()
Cycle ==
    /\ at = "cycle"
    /\ Alive
    /\ chip8.Stack_pointer < MaxCalls
    /\ \E rnd \in IF UsesRand(chip8) THEN RandBytes ELSE {0} :
          chip8' = EmulateCycle(chip8, rnd)
    /\ at' = "render"
    /\ UNCHANGED <<romName, keyStates>>
    /\ UNCHANGED pacing

Render_KeepsFlag ==
    /\ at = "render"
    /\ Alive
    /\ chip8' = chip8
    /\ at' = "setkeys"
    /\ UNCHANGED <<romName, keyStates>>
    /\ UNCHANGED pacing

\* if chip8.DrawFlag { ... read Display ...; chip8.DrawFlag = false }
Render ==
    /\ at = "render"
    /\ Alive
    /\ chip8' = IF chip8.DrawFlag THEN [chip8 EXCEPT !.DrawFlag = FALSE] ELSE chip8
    /\ at' = "setkeys"
    /\ UNCHANGED <<romName, keyStates>>
    /\ UNCHANGED pacing

DoSetKeys_NoCall ==
    /\ at = "setkeys"
    /\ Alive
    /\ chip8' = Enter(chip8)
    /\ at' = IF target_fps = 0 THEN "crash" ELSE "poll"
    /\ UNCHANGED <<romName, keyStates>>
    /\ UNCHANGED pacing

\* chip8.SetKeys(*keyStates); sdl.Delay(uint32(delay / target_fps)): the
\* division of two uint32 variables panics when the divisor is 0
DoSetKeys ==
    /\ at = "setkeys"
    /\ Alive
    /\ chip8' = SetKeys(Enter(chip8), keyStates)
    /\ at' = IF target_fps = 0 THEN "crash" ELSE "poll"
    /\ UNCHANGED <<romName, keyStates>>
    /\ UNCHANGED pacing

\* Init is an exported method: a client may call it again on a CPU in use,
\* and then loads a program again
Reinit ==
    /\ at = "poll"
    /\ Alive
    /\ chip8' = CPU_Init(Enter(chip8))
    /\ at' = "load"
    /\ UNCHANGED <<romName, keyStates>>
    /\ UNCHANGED pacing

Next ==
    \/ ShowMenu
    \/ MenuQuit
    \/ DoInit
    \/ DoLoadRom
    \/ PollEvent
    \/ EventsDrained
    \/ Cycle
    \/ Render
    \/ DoSetKeys
    \/ Reinit

Spec == Init /\ [][Next]_vars

\* ------------------------------------------------------------------------
\* Runs of the emulation loop on one given program, with no key pressed:
\* the state after chip8.Init() and chip8.LoadRom of a file holding the
\* instruction words prog, and the steps of the loop from there
\* ------------------------------------------------------------------------
Loaded(prog) ==
    LoadRom(Enter(CPU_Init(Enter(ZeroCPU))), [exists |-> TRUE, data |-> Bytes(prog)])

StartsWith(progs) ==
    /\ \E prog \in progs : chip8 = Loaded(prog)
    /\ at = "poll"
    /\ romName = "test"
    /\ keyStates = NoKeys
    /\ delay = 100
    /\ target_fps = 60

NextLoop ==
    \/ EventsDrained
    \/ Cycle
    \/ Render
    \/ DoSetKeys

\* register values around the edges of the 8-bit range
\* the word 6xkk that sets register x to v
Ld(x, v) == W(6, x, v \div 16, v % 16)

Vals == {0, 1, 6, 10, 20, 100, 127, 128, 200, 250, 255}

\* 6xkk: every register with the edge values, one register with every byte
LoadCases ==
    {<<x, kk>> : x \in 0..15, kk \in Vals} \cup {<<10, kk>> : kk \in 0..255}

ProgsLoad == {<<W(6, c[1], c[2] \div 16, c[2] % 16)>> : c \in LoadCases}

InitLoad == StartsWith(ProgsLoad)

SpecLoad == InitLoad /\ [][NextLoop]_vars

\* 7xkk on a register x # F holding vx, with VF holding 7
ProgsAdd ==
    {<<Ld(15, 7), Ld(x, vx), W(7, x, kk \div 16, kk % 16)>> :
        x \in {0, 7, 14}, vx \in Vals, kk \in Vals}

InitAdd == StartsWith(ProgsAdd)

SpecAdd == InitAdd /\ [][NextLoop]_vars

\* 8xy0..8xy5 and 8xy7 on two registers holding vx and vy (with x = y the
\* second load wins), VF among them
RegPairs == {<<0, 0>>, <<1, 2>>, <<3, 15>>, <<15, 3>>}

ProgsArith ==
    {<<Ld(p[1], vx), Ld(p[2], vy), W(8, p[1], p[2], n)>> :
        p \in RegPairs, vx \in {10, 20, 100, 200}, vy \in {10, 20, 100, 200},
        n \in {0, 1, 2, 3, 4, 5, 7}}

InitArith == StartsWith(ProgsArith)

SpecArith == InitArith /\ [][NextLoop]_vars

\* 8xy6 and 8xyE on a register x # F: Vy holds 0x55; register 7 is tried
\* with every byte
ShiftCases ==
    {<<x, y, vx>> : x \in {0, 14}, y \in {1, 15}, vx \in Vals}
        \cup {<<7, 1, vx>> : vx \in 0..255}

ProgsShift ==
    {<<Ld(c[2], 85), Ld(c[1], c[3]), W(8, c[1], c[2], n)>> :
        c \in ShiftCases, n \in {6, 14}}

InitShift == StartsWith(ProgsShift)

SpecShift == InitShift /\ [][NextLoop]_vars

\* the four conditional skips on registers holding vx and vy (with x = y
\* the second load wins), against kk from the same values
SkipVals == {0, 1, 200, 255}

SkipWords(x, y) ==
    {W(g, x, kk \div 16, kk % 16) : g \in {3, 4}, kk \in SkipVals}
        \cup {W(5, x, y, 0), W(9, x, y, 0)}

SkipCases ==
    {<<x, x + d, vx, vy>> : x \in {1}, d \in {0, 1},
                            vx \in SkipVals, vy \in SkipVals}

ProgsSkip ==
    UNION {{<<Ld(c[1], c[3]), Ld(c[2], c[4]), w>> : w \in SkipWords(c[1], c[2])} :
              c \in SkipCases}

InitSkip == StartsWith(ProgsSkip)

SpecSkip == InitSkip /\ [][NextLoop]_vars

\* Cxkk on registers 0 and F, with V1 holding 0x33, for masks kk with no,
\* one, some and all bits set
RandMasks == {0, 1, 15, 128, 165, 255}

ProgsRand ==
    {<<Ld(1, 51), W(12, x, kk \div 16, kk % 16)>> : x \in {0, 15}, kk \in RandMasks}

InitRand == StartsWith(ProgsRand)

SpecRand == InitRand /\ [][NextLoop]_vars

\* Dxyn on the glyph "0" (I = 0) with V0 = vx, V1 = vy and V2 = h: D01n
\* for n = 1 (V1 holds vy), n = 2 (V2 holds h) and n = 5 (V5 holds 0)
ProgsDraw ==
    {<<Ld(0, vx), Ld(1, vy), Ld(2, h), W(10, 0, 0, 0), W(13, 0, 1, n)>> :
        vx \in {0, 5, 62}, vy \in {0, 1, 31}, h \in {2, 5}, n \in {1, 2, 5}}

InitDraw == StartsWith(ProgsDraw)

SpecDraw == InitDraw /\ [][NextLoop]_vars

\* Programs that draw on a display already drawn on, and clear it:
\*   twice the same D012 (V2 = h rows) at (vx, vy), of the glyph "0" (I = 0)
\*     or of a blank sprite (I = 80), VF holding 1 beforehand;
\*   the same glyph again two columns further, overlapping the first;
\*   twice DF12 and twice D01F, which take a coordinate or the row count
\*     from VF;
\*   00E0 on a blank display and after a draw
ProgsTwice ==
    {<<Ld(15, 1), Ld(0, vx), Ld(1, vy), Ld(2, h), W(10, 0, i \div 16, i % 16),
       W(13, 0, 1, 2), W(13, 0, 1, 2)>> :
        vx \in {0, 5, 60}, vy \in {0, 30}, h \in {2, 5}, i \in {0, 80}}

ProgsOverlap ==
    {<<Ld(0, vx), Ld(1, 3), Ld(2, 5), W(10, 0, 0, 0), W(13, 0, 1, 2),
       Ld(0, vx + 2), W(13, 0, 1, 2)>> : vx \in {0, 5}}

ProgsFlagOperand ==
    {<<Ld(15, 5), Ld(1, 0), Ld(2, 2), W(10, 0, 0, 0), W(13, 15, 1, 2), W(13, 15, 1, 2)>>,
     <<Ld(15, 2), Ld(0, 0), Ld(1, 0), W(10, 0, 0, 0), W(13, 0, 1, 15), W(13, 0, 1, 15)>>}

ProgsClear ==
    {<<W(0, 0, 14, 0)>>}
        \cup {<<Ld(0, vx), Ld(2, 5), W(10, 0, 0, 0), W(13, 0, 1, 2), W(0, 0, 14, 0)>> :
                 vx \in {0, 40}}

InitScreen ==
    StartsWith(ProgsTwice \cup ProgsOverlap \cup ProgsFlagOperand \cup ProgsClear)

SpecScreen == InitScreen /\ [][NextLoop]_vars

\* ------------------------------------------------------------------------
\* Runs of the emulation loop on one given program with the keys "3" and
\* "d" (keypad entries 3 and 9) going down and up
\* ------------------------------------------------------------------------
NextKeys ==
    \/ PollEvent
    \/ NextLoop

\* Ex9E and ExA1 on register 4 holding a key that may be down (3, 9), one
\* that is up (5), and values that are no key (16, 255); F50A
ProgsKeys ==
    {<<Ld(1, 1), Ld(4, v), W(14, 4, k \div 16, k % 16)>> :
        v \in {3, 5, 9, 16, 255}, k \in {158, 161}}
        \cup {<<Ld(5, 7), W(15, 5, 0, 10), Ld(6, 1)>>}

InitKeys == StartsWith(ProgsKeys)

SpecKeys == InitKeys /\ [][NextKeys]_vars

\* Fx15 or Fx18 with V0 = n, followed by six instructions that leave the
\* timers alone
ProgsTimers ==
    {<<Ld(0, n), W(15, 0, 1, t), Ld(1, 1), Ld(1, 2), Ld(1, 3), Ld(1, 4),
       Ld(1, 5), Ld(1, 6)>> : n \in {0, 1, 2, 5}, t \in {5, 8}}

InitTimers == StartsWith(ProgsTimers)

SpecTimers == InitTimers /\ [][NextLoop]_vars

\* Fx33 on register 3: every byte at I = 0x300, and edge values at the
\* first and at the last address that leaves room for three digits
BcdCases ==
    {<<v, 768>> : v \in 0..255} \cup {<<v, i>> : v \in Vals \cup {207}, i \in {0, 4093}}

ProgsBcd ==
    {<<Ld(3, c[1]), W(10, c[2] \div 256, (c[2] \div 16) % 16, c[2] % 16),
       W(15, 3, 3, 3)>> : c \in BcdCases}

InitBcd == StartsWith(ProgsBcd)

SpecBcd == InitBcd /\ [][NextLoop]_vars

\* Fx55 with V0..V3 = a, a+1, a+2, 77, then V0 and V1 overwritten, then
\* Fx65 with the same x, at I = 0x300 and at the last I that leaves room
\* for x + 1 cells
RegCases ==
    {<<a, x, 768>> : a \in {1, 200, 255}, x \in {0, 1, 2, 15}}
        \cup {<<a, x, 4095 - x>> : a \in {1, 200, 255}, x \in {0, 1, 2, 15}}

ProgsRegs ==
    {<<Ld(0, c[1]), Ld(1, (c[1] + 1) % 256), Ld(2, (c[1] + 2) % 256), Ld(3, 77),
       W(10, c[3] \div 256, (c[3] \div 16) % 16, c[3] % 16),
       W(15, c[2], 5, 5), Ld(0, 99), Ld(1, 98), W(15, c[2], 6, 5)>> :
        c \in RegCases}

InitRegs == StartsWith(ProgsRegs)

SpecRegs == InitRegs /\ [][NextLoop]_vars

\* A program that loops without reading the keypad, run with the whole
\* keyboard
ProgsKeyboard == {<<W(1, 2, 0, 0)>>}

InitKeyboard == StartsWith(ProgsKeyboard)

NextKeyboard == PollKeyboard \/ NextLoop

SpecKeyboard == InitKeyboard /\ [][NextKeyboard]_vars

\* Words of the groups 0, 5 and 9 that are no instruction: 0abc with last
\* digit 0 or E other than 00E0 and 00EE, run after a load, and 5xyn and
\* 9xyn with n # 0 on registers holding vx and vy
InexactWords0 ==
    {W(0, a, b, c) : a \in {0, 1}, b \in {0, 1, 2, 14}, c \in {0, 14}}
        \ {W(0, 0, 14, 0), W(0, 0, 14, 14)}

ProgsDecode ==
    {<<Ld(0, 1), w>> : w \in InexactWords0}
        \cup {<<Ld(1, vx), Ld(2, vy), W(g, 1, 2, n)>> :
                 g \in {5, 9}, vx \in {0, 7}, vy \in {0, 7}, n \in {1, 8, 15}}

InitDecode == StartsWith(ProgsDecode)

SpecDecode == InitDecode /\ [][NextLoop]_vars

\* Programs that set the delay timer to n and then come to an Fx0A with no
\* key down, or to a word of no instruction
ProgsTick ==
    {<<Ld(0, n), W(15, 0, 1, 5), w>> :
        n \in {1, 2, 5, 20},
        w \in {W(15, 5, 0, 10), W(8, 1, 2, 8), W(0, 0, 0, 1), W(14, 0, 0, 0),
               W(15, 0, 15, 15)}}

InitTick == StartsWith(ProgsTick)

SpecTick == InitTick /\ [][NextLoop]_vars

\* The runs of the key programs in which the loop keeps going: the event
\* queue is finite, so every pass of the event loop comes to its end, and
\* the statements after it follow one another
SpecKeysFair ==
    /\ InitKeys
    /\ [][NextKeys]_vars
    /\ WF_vars(EventsDrained)
    /\ WF_vars(Cycle)
    /\ WF_vars(Render)
    /\ WF_vars(DoSetKeys)

\* The runs in which the player changes the pacing in the menu before
\* choosing the ROM "full", a program that loops; no key events while it
\* runs
NextMenu ==
    \/ MenuKey
    \/ ShowMenu /\ romName' = "full"
    \/ MenuQuit
    \/ DoInit
    \/ DoLoadRom
    \/ NextLoop

SpecMenu == Init /\ [][NextMenu]_vars

\* One program for every kind of instruction word, run after two loads and
\* with the keys 3 and 9 going down and up in the event loop
AllKinds ==
    {W(0,0,14,0), W(0,0,14,14), W(0,0,0,1), W(1,2,0,6), W(2,2,0,6), W(3,0,0,7),
     W(4,0,0,7), W(5,0,1,0), W(6,10,5,5), W(7,0,15,15), W(8,0,1,0), W(8,0,1,1),
     W(8,0,1,2), W(8,0,1,3), W(8,0,1,4), W(8,0,1,5), W(8,0,1,6), W(8,0,1,7),
     W(8,0,1,14), W(8,0,1,8), W(9,0,1,0), W(10,1,2,3), W(11,2,0,0), W(12,0,0,1),
     W(13,0,1,1), W(14,0,9,14), W(14,0,10,1), W(14,0,0,0), W(15,0,0,7),
     W(15,0,0,10), W(15,0,1,5), W(15,0,1,8), W(15,0,1,14), W(15,0,2,9),
     W(15,0,3,3), W(15,0,5,5), W(15,0,6,5), W(15,0,15,15)}

ProgsAllKinds == {<<Ld(0, 3), Ld(1, 9), w>> : w \in AllKinds}

InitAllKinds == StartsWith(ProgsAllKinds)

SpecAllKinds == InitAllKinds /\ [][NextKeys]_vars

\* ------------------------------------------------------------------------
\* Vocabulary of the properties
\* ------------------------------------------------------------------------
\* the fields of struct CPU
CPUFields ==
    {"Memory", "Opcode", "V", "I", "Pc", "Delay_timer", "Sound_timer",
     "Display", "Stack_pointer", "Stack", "Keypad", "DrawFlag"}

\* a step that is a call of Init (from run, or again on a CPU in use)
InitStep == at \in {"init", "poll"} /\ at' = "load"

\* a step that is a call of LoadRom
LoadStep == at = "load" /\ at' = "poll"

\* a step that is a call of EmulateCycle
CycleStep == at = "cycle" /\ at' = "render"

\* the word the next EmulateCycle fetches, when Pc and Pc+1 are in Memory
Fetchable(m) == m.Pc + 1 < MemSize

NextWord(m) == m.Memory[m.Pc] * 256 + m.Memory[m.Pc + 1]

\* the instruction words EmulateCycle sends to one of its default branches
UnknownWord(op) ==
    \/ Group(op) = 0  /\ N(op) \notin {0, 14}
    \/ Group(op) = 8  /\ N(op) \notin {0, 1, 2, 3, 4, 5, 6, 7, 14}
    \/ Group(op) = 14 /\ KK(op) \notin {158, 161}
    \/ Group(op) = 15 /\ KK(op) \notin {7, 10, 21, 24, 30, 41, 51, 85, 101}

\* the state Init is to leave behind
InitPost(c) ==
    /\ c.Pc = 512
    /\ c.Stack_pointer = 0
    /\ c.I = 0
    /\ \A r \in 0..15 : c.V[r] = 0
    /\ \A i \in 0..15 : c.Stack[i] = 0
    /\ \A r \in 0..31 : \A col \in 0..63 : c.Display[r][col] = 0
    /\ c.Delay_timer = 0
    /\ c.Sound_timer = 0
    /\ \A a \in 0..79 : c.Memory[a] = fontSet[a + 1]
    /\ \A a \in 80..4095 : c.Memory[a] = 0

\* the CPU shows that a program has run on it
Used(c) ==
    /\ \E r \in 0..15 : c.V[r] # 0
    /\ \E i \in 0..15 : c.Stack[i] # 0
    /\ \E r \in 0..31 : \E col \in 0..63 : c.Display[r][col] # 0
    /\ c.Sound_timer # 0
    /\ c.Stack_pointer # 0
    /\ c.I # 0
    /\ c.Pc # 512
    /\ \E a \in 0..79 : c.Memory[a] # fontSet[a + 1]

\* ------------------------------------------------------------------------
\* C1: whatever state the CPU is in when Init is called, after the call
\* Pc = 0x200, Stack_pointer = 0, I = 0, every V register, stack slot and
\* display pixel is 0, both timers are 0, Memory[0..79] is the glyph set and
\* Memory[80..4095] is 0.
\* ------------------------------------------------------------------------
C1_InitResets == [][InitStep => InitPost(chip8')]_vars

\* Init has been called on a CPU on which the program "dirty" had run: the
\* keypad entry that SetKeys set is still there, everything else is reset
C1_Witness ==
    /\ at = "load"
    /\ romName = "dirty"
    /\ chip8.Keypad[3] = 1
    /\ InitPost(chip8)

\* the program "dirty" brings the CPU to a state with every part changed
C1_UsedReached == at = "poll" /\ Used(chip8)

\* ------------------------------------------------------------------------
\* C2: after Init, called from any prior CPU state, all 16 keypad entries
\* are up (0).
\* ------------------------------------------------------------------------
C2_InitClearsKeypad ==
    [][InitStep => \A k \in 0..15 : chip8'.Keypad[k] = 0]_vars

\* ------------------------------------------------------------------------
\* C3: LoadRom of a program of L <= 3584 bytes sets Memory[0x200+i] =
\* bytes[i] for every i < L and leaves every other memory cell and every
\* other field of the CPU unchanged.
\* ------------------------------------------------------------------------
C3_LoadRomFrame ==
    [][(LoadStep /\ File(romName).exists /\ Len(File(romName).data) <= 3584)
        => LET data == File(romName).data
           IN  /\ \A a \in 0..4095 :
                     chip8'.Memory[a] =
                        IF a >= 512 /\ a - 512 < Len(data)
                        THEN data[a - 512 + 1] ELSE chip8.Memory[a]
               /\ \A f \in CPUFields \ {"Memory"} : chip8'[f] = chip8[f]]_vars

\* the 3584-byte program is in memory up to the last cell, the glyph set is
\* in place, and the keypad entry set before the load is still set
C3_Witness ==
    /\ at = "poll"
    /\ romName = "full"
    /\ chip8.out = <<[msg |-> "ROM loaded successfully", word |-> 0]>>
    /\ chip8.Memory[512] = 18
    /\ chip8.Memory[4095] = 171
    /\ chip8.Memory[79] = 128
    /\ chip8.Keypad[9] = 1

\* ------------------------------------------------------------------------
\* C4: loading a program of exactly 3584 bytes succeeds; loading one of
\* 3585 bytes or more ends in an error (a panic), raised before any
\* EmulateCycle runs, without the success report; after the panic nothing
\* runs on the CPU.
\* ------------------------------------------------------------------------
ReportsSuccess(c) ==
    \E i \in 1..Len(c.out) : c.out[i].msg = "ROM loaded successfully"

C4_LoadRomLimit ==
    [][/\ (LoadStep /\ File(romName).exists)
            => IF Len(File(romName).data) <= 3584
               THEN chip8'.panic = NoPanic /\ ReportsSuccess(chip8')
               ELSE chip8'.panic # NoPanic /\ ~ReportsSuccess(chip8')
       /\ chip8.panic # NoPanic => chip8' = chip8 /\ ~CycleStep]_vars

\* the 3585-byte program has been refused
C4_Witness ==
    /\ at = "poll"
    /\ romName = "toolong"
    /\ chip8.panic = "Memory"
    /\ chip8.out = << >>

\* the 3584-byte program has been accepted
C4_WitnessFull ==
    /\ at = "poll"
    /\ romName = "full"
    /\ chip8.panic = NoPanic
    /\ ReportsSuccess(chip8)

\* ------------------------------------------------------------------------
\* C5: no EmulateCycle reads or writes a memory address of 0x1000 or above
\* (Go stops such an access with an index-out-of-range panic).
\* ------------------------------------------------------------------------
C5_NoAccessBeyondMemory ==
    [][CycleStep => chip8'.panic # "Memory"]_vars

\* ------------------------------------------------------------------------
\* C6: in every state reached by 2nnn and 00EE (and other instructions),
\* 0 <= Stack_pointer <= 16.
\* ------------------------------------------------------------------------
C6_StackPointerInRange ==
    Alive => chip8.Stack_pointer \in 0..16

\* ------------------------------------------------------------------------
\* C7: 2nnn with 16 return addresses on the stack, and 00EE with
\* Stack_pointer = 0, each end in an error; the stack pointer is not
\* wrapped, and memory, registers and stack are not modified.
\* ------------------------------------------------------------------------
C7_StackErrors ==
    [][(/\ CycleStep
        /\ Fetchable(chip8)
        /\ \/ Group(NextWord(chip8)) = 2 /\ chip8.Stack_pointer = 16
           \/ NextWord(chip8) = 238 /\ chip8.Stack_pointer = 0)
        => /\ chip8'.panic # NoPanic
           /\ chip8'.Stack_pointer = chip8.Stack_pointer
           /\ chip8'.Stack = chip8.Stack
           /\ chip8'.Memory = chip8.Memory
           /\ chip8'.V = chip8.V]_vars

\* ------------------------------------------------------------------------
\* C8: 2nnn executed at program counter p with stack pointer s < 16 stores
\* p in stack slot s, sets the stack pointer to s+1 and Pc to nnn; all other
\* stack slots are unchanged.
\* ------------------------------------------------------------------------
C8_CallPushesAtStackPointer ==
    [][(/\ CycleStep
        /\ Fetchable(chip8)
        /\ Group(NextWord(chip8)) = 2
        /\ chip8.Stack_pointer < 16)
        => /\ chip8'.panic = NoPanic
           /\ chip8'.Stack = [chip8.Stack EXCEPT ![chip8.Stack_pointer] = chip8.Pc]
           /\ chip8'.Stack_pointer = chip8.Stack_pointer + 1
           /\ chip8'.Pc = NNN(NextWord(chip8))]_vars

\* ------------------------------------------------------------------------
\* C9: for every call site p >= 0x200 and target nnn holding 00EE,
\* executing 2nnn at p and then 00EE leaves Pc = p + 2 and the stack pointer
\* at its value before the call.
\* ------------------------------------------------------------------------
C9_CallThenReturn ==
    (/\ at = "cycle"
     /\ Alive
     /\ Fetchable(chip8)
     /\ chip8.Pc >= 512
     /\ Group(NextWord(chip8)) = 2
     /\ NNN(NextWord(chip8)) + 1 < MemSize
     /\ chip8.Memory[NNN(NextWord(chip8))] = 0
     /\ chip8.Memory[NNN(NextWord(chip8)) + 1] = 238)
    => LET called == EmulateCycle(chip8, 0)
       IN  /\ called.panic = NoPanic
           /\ LET returned == EmulateCycle(called, 0)
              IN  /\ returned.panic = NoPanic
                  /\ returned.Pc = chip8.Pc + 2
                  /\ returned.Stack_pointer = chip8.Stack_pointer

\* ------------------------------------------------------------------------
\* C10: a cycle that fetches a word matching no defined instruction goes on
\* with Pc advanced by exactly 2 and registers, I, memory, stack and display
\* unchanged, so that the word is not fetched again and again.
\* ------------------------------------------------------------------------
C10_UnknownAdvances ==
    [][(/\ CycleStep
        /\ Fetchable(chip8)
        /\ UnknownWord(NextWord(chip8)))
        => /\ chip8'.panic = NoPanic
           /\ chip8'.Pc = chip8.Pc + 2
           /\ chip8'.V = chip8.V
           /\ chip8'.I = chip8.I
           /\ chip8'.Memory = chip8.Memory
           /\ chip8'.Stack = chip8.Stack
           /\ chip8'.Display = chip8.Display]_vars

\* ------------------------------------------------------------------------
\* C11: for every x in 0..F and kk in 0..255, 6xkk executed right after
\* Init (and the load of the program) leaves Vx = kk and Pc = 0x202, and
\* every other V register, I, memory, stack and display unchanged.
\* ------------------------------------------------------------------------
C11_LoadImmediate ==
    [][(/\ CycleStep
        /\ Fetchable(chip8)
        /\ Group(NextWord(chip8)) = 6)
        => LET x  == (NextWord(chip8) \div 256) % 16
               kk == NextWord(chip8) % 256
           IN  /\ chip8'.panic = NoPanic
               /\ chip8'.V[x] = kk
               /\ \A r \in 0..15 : r # x => chip8'.V[r] = chip8.V[r]
               /\ chip8'.Pc = chip8.Pc + 2
               /\ chip8.Pc = 512 => chip8'.Pc = 514
               /\ chip8'.I = chip8.I
               /\ chip8'.Memory = chip8.Memory
               /\ chip8'.Stack = chip8.Stack
               /\ chip8'.Display = chip8.Display]_vars

\* 6AC7 has run as the first instruction after Init: VA = 0xC7, Pc = 0x202
C11_Witness ==
    /\ at = "render"
    /\ chip8.Opcode = 27335
    /\ chip8.V[10] = 199
    /\ chip8.Pc = 514
    /\ chip8.panic = NoPanic

\* ------------------------------------------------------------------------
\* C12: for every x # F, every Vx and every kk, 7xkk leaves
\* Vx = (Vx + kk) mod 256 (250 + 10 gives 4), leaves VF at its prior value
\* and advances Pc by 2.
\* ------------------------------------------------------------------------
C12_AddImmediate ==
    [][(/\ CycleStep
        /\ Fetchable(chip8)
        /\ Group(NextWord(chip8)) = 7
        /\ (NextWord(chip8) \div 256) % 16 # 15)
        => LET x  == (NextWord(chip8) \div 256) % 16
               kk == NextWord(chip8) % 256
           IN  /\ chip8'.panic = NoPanic
               /\ chip8'.V[x] = (chip8.V[x] + kk) % 256
               /\ chip8'.V[15] = chip8.V[15]
               /\ chip8'.Pc = chip8.Pc + 2]_vars

\* 700A has run with V0 = 250 and VF = 7: V0 = 4 and VF is still 7
C12_Witness ==
    /\ at = "render"
    /\ chip8.Opcode = 28682
    /\ chip8.V[0] = 4
    /\ chip8.V[15] = 7
    /\ chip8.Pc = 518
    /\ chip8.panic = NoPanic

\* ------------------------------------------------------------------------
\* C13: for every pair of register indices x, y: 8xy0 sets Vx = Vy, 8xy1
\* sets Vx = Vx OR Vy, 8xy2 sets Vx = Vx AND Vy, 8xy3 sets Vx = Vx XOR Vy;
\* each leaves every other register unchanged and advances Pc by 2, and
\* completes, the only registers it touches being x and y.
\* ------------------------------------------------------------------------
C13_Logic ==
    [][(/\ CycleStep
        /\ Fetchable(chip8)
        /\ Group(NextWord(chip8)) = 8
        /\ NextWord(chip8) % 16 \in {0, 1, 2, 3})
        => LET x  == (NextWord(chip8) \div 256) % 16
               y  == (NextWord(chip8) \div 16) % 16
               n  == NextWord(chip8) % 16
               vx == chip8.V[x]
               vy == chip8.V[y]
           IN  /\ chip8'.panic = NoPanic
               /\ chip8'.V[x] = CASE n = 0 -> vy
                                  [] n = 1 -> BitOr(vx, vy)
                                  [] n = 2 -> BitAnd(vx, vy)
                                  [] n = 3 -> BitXor(vx, vy)
               /\ \A r \in 0..15 : r # x => chip8'.V[r] = chip8.V[r]
               /\ chip8'.Pc = chip8.Pc + 2]_vars

\* ------------------------------------------------------------------------
\* C14: for every x, y, x = F and y = F included, after 8xy4 VF is 1
\* exactly when the sum of Vx and Vy before the instruction exceeds 255,
\* and 0 otherwise; for x # F, Vx is that sum modulo 256.
\* ------------------------------------------------------------------------
C14_AddCarry ==
    [][(/\ CycleStep
        /\ Fetchable(chip8)
        /\ Group(NextWord(chip8)) = 8
        /\ NextWord(chip8) % 16 = 4)
        => LET x == (NextWord(chip8) \div 256) % 16
               y == (NextWord(chip8) \div 16) % 16
               sum == chip8.V[x] + chip8.V[y]
           IN  /\ chip8'.panic = NoPanic
               /\ chip8'.V[15] = IF sum > 255 THEN 1 ELSE 0
               /\ x # 15 => chip8'.V[x] = sum % 256]_vars

\* ------------------------------------------------------------------------
\* C15: 8xy5 leaves Vx = (Vx - Vy) mod 256 and VF = 0 if Vy > Vx, else 1;
\* 8xy7 leaves Vx = (Vy - Vx) mod 256 and VF = 0 if Vx > Vy, else 1; all
\* computed from the values before the instruction (with y = F the old VF
\* is the operand); Pc advances by 2.  Vx is required for x # F, where it
\* is not the flag register.
\* ------------------------------------------------------------------------
C15_Subtract ==
    [][(/\ CycleStep
        /\ Fetchable(chip8)
        /\ Group(NextWord(chip8)) = 8
        /\ NextWord(chip8) % 16 \in {5, 7})
        => LET x  == (NextWord(chip8) \div 256) % 16
               y  == (NextWord(chip8) \div 16) % 16
               n  == NextWord(chip8) % 16
               vx == chip8.V[x]
               vy == chip8.V[y]
           IN  /\ chip8'.panic = NoPanic
               /\ chip8'.Pc = chip8.Pc + 2
               /\ n = 5 => /\ chip8'.V[15] = IF vy > vx THEN 0 ELSE 1
                           /\ x # 15 => chip8'.V[x] = (vx - vy) % 256
               /\ n = 7 => /\ chip8'.V[15] = IF vx > vy THEN 0 ELSE 1
                           /\ x # 15 => chip8'.V[x] = (vy - vx) % 256]_vars

C16_WitnessLeft ==
    /\ at = "render"
    /\ chip8.Opcode = 36382
    /\ chip8.V[14] = 244
    /\ chip8.V[15] = 1
    /\ chip8.panic = NoPanic

\* whether the instruction word w, executed in the state m, skips
Skips(m, w) == Execute([m EXCEPT !.Opcode = w], 0).Pc = m.Pc + 4

\* ------------------------------------------------------------------------
\* C17: each conditional skip advances Pc by 4 when its condition holds and
\* by 2 otherwise, and changes no register: 3xkk skips iff Vx = kk, 4xkk
\* iff Vx # kk, 5xy0 iff Vx = Vy, 9xy0 iff Vx # Vy; so in any state exactly
\* one of 3xkk and 4xkk skips, and exactly one of 5xy0 and 9xy0.
\* ------------------------------------------------------------------------
C17_Skips ==
    [][(/\ CycleStep
        /\ Fetchable(chip8)
        /\ \/ Group(NextWord(chip8)) \in {3, 4}
           \/ Group(NextWord(chip8)) \in {5, 9} /\ NextWord(chip8) % 16 = 0)
        => LET w  == NextWord(chip8)
               g  == w \div 4096
               x  == (w \div 256) % 16
               y  == (w \div 16) % 16
               kk == w % 256
               holds == CASE g = 3 -> chip8.V[x] = kk
                          [] g = 4 -> chip8.V[x] # kk
                          [] g = 5 -> chip8.V[x] = chip8.V[y]
                          [] g = 9 -> chip8.V[x] # chip8.V[y]
           IN  /\ chip8'.panic = NoPanic
               /\ chip8'.Pc = chip8.Pc + (IF holds THEN 4 ELSE 2)
               /\ chip8'.V = chip8.V
               /\ chip8'.I = chip8.I
               /\ Skips(chip8, 12288 + (w % 4096)) # Skips(chip8, 16384 + (w % 4096))
               /\ Skips(chip8, 20480 + x * 256 + y * 16)
                     # Skips(chip8, 36864 + x * 256 + y * 16)]_vars

\* 9120 has run with V1 = 200 and V2 = 1 and has skipped: Pc = 0x208
C17_Witness ==
    /\ at = "render"
    /\ chip8.Opcode = 37152
    /\ chip8.V[1] = 200
    /\ chip8.V[2] = 1
    /\ chip8.Pc = 520
    /\ chip8.panic = NoPanic

\* 41C8 has run with V1 = 200 and has not skipped: Pc = 0x206
C17_WitnessNoSkip ==
    /\ at = "render"
    /\ chip8.Opcode = 16840
    /\ chip8.V[1] = 200
    /\ chip8.Pc = 518
    /\ chip8.panic = NoPanic

\* ------------------------------------------------------------------------
\* C18: for every value the random source can return, after Cxkk the
\* register Vx has no bit set that is clear in kk (Cx00 always yields 0),
\* every other register is unchanged and Pc advances by 2.
\* ------------------------------------------------------------------------
C18_RandomMasked ==
    [][(/\ CycleStep
        /\ Fetchable(chip8)
        /\ Group(NextWord(chip8)) = 12)
        => LET x  == (NextWord(chip8) \div 256) % 16
               kk == NextWord(chip8) % 256
           IN  /\ chip8'.panic = NoPanic
               /\ BitAnd(chip8'.V[x], 255 - kk) = 0
               /\ kk = 0 => chip8'.V[x] = 0
               /\ \A r \in 0..15 : r # x => chip8'.V[r] = chip8.V[r]
               /\ chip8'.Pc = chip8.Pc + 2]_vars

\* C0A5 has run and the random byte had the bits 0x84 of the mask 0xA5
C18_Witness ==
    /\ at = "render"
    /\ chip8.Opcode = 49317
    /\ chip8.V[0] = 132
    /\ chip8.V[1] = 51
    /\ chip8.Pc = 516
    /\ chip8.panic = NoPanic

\* bit co (0 = most significant) of row ro of the sprite at I
SpriteBit(m, ro, co) == (m.Memory[m.I + ro] \div (2 ^ (7 - co))) % 2

\* ------------------------------------------------------------------------
\* C19: Dxyn XORs exactly n sprite rows, n being the low nibble of the
\* instruction word and not the content of a register: row r < n is the
\* byte Memory[I + r], most significant bit first, on the 8 pixels from
\* column Vx of row Vy + r; no other pixel changes, and I and Memory are
\* unchanged.  Stated for sprites that lie within the display.
\* ------------------------------------------------------------------------
C19_DrawsNibbleRows ==
    [][(/\ CycleStep
        /\ Fetchable(chip8)
        /\ Group(NextWord(chip8)) = 13
        /\ chip8.V[(NextWord(chip8) \div 256) % 16] + 7 < 64
        /\ chip8.V[(NextWord(chip8) \div 16) % 16] + (NextWord(chip8) % 16) <= 32
        /\ chip8.I + (NextWord(chip8) % 16) <= 4096)
        => LET vx == chip8.V[(NextWord(chip8) \div 256) % 16]
               vy == chip8.V[(NextWord(chip8) \div 16) % 16]
               n  == NextWord(chip8) % 16
           IN  /\ chip8'.panic = NoPanic
               /\ \A r \in 0..31 : \A c \in 0..63 :
                     chip8'.Display[r][c] =
                        IF r >= vy /\ r < vy + n /\ c >= vx /\ c < vx + 8
                        THEN BitXor(chip8.Display[r][c],
                                    SpriteBit(chip8, r - vy, c - vx))
                        ELSE chip8.Display[r][c]
               /\ chip8'.I = chip8.I
               /\ chip8'.Memory = chip8.Memory]_vars

\* ------------------------------------------------------------------------
\* C20: for every Vx, Vy and sprite, Dxyn wraps on both axes: the sprite
\* pixel at column offset c and row offset r lands on column
\* (Vx + c) mod 64 of row (Vy + r) mod 32, so the instruction completes
\* without error even across the right or bottom edge.  Stated for the
\* instructions whose register n holds n, where the number of rows is not
\* in question.
\* ------------------------------------------------------------------------
C20_DrawWraps ==
    [][(/\ CycleStep
        /\ Fetchable(chip8)
        /\ Group(NextWord(chip8)) = 13
        /\ chip8.V[NextWord(chip8) % 16] = NextWord(chip8) % 16
        /\ chip8.I + (NextWord(chip8) % 16) <= 4096)
        => LET vx == chip8.V[(NextWord(chip8) \div 256) % 16]
               vy == chip8.V[(NextWord(chip8) \div 16) % 16]
               n  == NextWord(chip8) % 16
           IN  /\ chip8'.panic = NoPanic
               /\ \A r \in 0..31 : \A c \in 0..63 :
                     LET ro == (r - vy) % 32
                         co == (c - vx) % 64
                     IN  chip8'.Display[r][c] =
                            IF ro < n /\ co < 8
                            THEN BitXor(chip8.Display[r][c],
                                        SpriteBit(chip8, ro, co))
                            ELSE chip8.Display[r][c]]_vars

\* D012 has drawn two rows of the glyph at (5, 0), its register 2 holding 2
C20_InsideDrawn ==
    /\ at = "render"
    /\ chip8.Opcode = 53266
    /\ chip8.V[0] = 5
    /\ chip8.Display[0][5] = 1
    /\ chip8.Display[1][8] = 1
    /\ chip8.Display[1][6] = 0
    /\ chip8.panic = NoPanic

\* ------------------------------------------------------------------------
\* C21: after a Dxyn that completes, VF = 1 if and only if some display
\* pixel that was set before the draw is unset after it, and VF = 0
\* otherwise, whatever VF held before; the redraw flag is set and Pc has
\* advanced by 2.
\* ------------------------------------------------------------------------
C21_CollisionFlag ==
    [][(/\ CycleStep
        /\ Fetchable(chip8)
        /\ Group(NextWord(chip8)) = 13
        /\ chip8'.panic = NoPanic)
        => /\ chip8'.V[15] =
                 IF \E r \in 0..31 : \E c \in 0..63 :
                        chip8.Display[r][c] = 1 /\ chip8'.Display[r][c] = 0
                 THEN 1 ELSE 0
           /\ chip8'.DrawFlag = TRUE
           /\ chip8'.Pc = chip8.Pc + 2]_vars

\* the second D012 at (5, 0) has erased the two glyph rows of the first:
\* VF = 1 and the display is blank again
C21_Witness ==
    /\ at = "render"
    /\ chip8.Opcode = 53266
    /\ chip8.Pc = 526
    /\ chip8.V[0] = 5
    /\ chip8.V[1] = 0
    /\ chip8.V[2] = 2
    /\ chip8.I = 0
    /\ chip8.V[15] = 1
    /\ chip8.DrawFlag = TRUE
    /\ \A r \in 0..31 : \A c \in 0..63 : chip8.Display[r][c] = 0

\* the first D012 at (5, 0) found VF = 1 and a blank display: VF = 0
C21_WitnessOverwritten ==
    /\ at = "render"
    /\ chip8.Opcode = 53266
    /\ chip8.Pc = 524
    /\ chip8.V[0] = 5
    /\ chip8.V[15] = 0
    /\ chip8.Display[0][5] = 1
    /\ chip8.Memory[513] = 1

\* ------------------------------------------------------------------------
\* C22: for every I, Vx, Vy and n (n = F and x or y = F included),
\* executing the same Dxyn twice in a row, with I and the sprite bytes
\* unchanged, returns the display to its state before the first draw, and
\* the second draw leaves VF = 1 whenever the sprite has a set bit.
\* Stated in the states about to execute the first of two equal Dxyn
\* words that follow each other in memory.
\* ------------------------------------------------------------------------
C22_DrawTwiceRestores ==
    (/\ at = "cycle"
     /\ chip8.Pc + 3 < 4096
     /\ Group(NextWord(chip8)) = 13
     /\ NextWord([chip8 EXCEPT !.Pc = chip8.Pc + 2]) = NextWord(chip8)
     /\ chip8.I + (NextWord(chip8) % 16) <= 4096)
    => LET n     == NextWord(chip8) % 16
           once  == EmulateCycle(chip8, 0)
           twice == EmulateCycle(once, 0)
       IN  /\ once.panic = NoPanic
           /\ twice.panic = NoPanic
           /\ twice.Display = chip8.Display
           /\ (\E r \in 0..(n - 1) : chip8.Memory[chip8.I + r] # 0)
                 => twice.V[15] = 1

\* ------------------------------------------------------------------------
\* C23: from any display content, 00E0 leaves every one of the 64x32
\* display cells 0, sets the redraw flag, advances Pc by 2, completes
\* without error and changes nothing else.
\* ------------------------------------------------------------------------
C23_ClearScreen ==
    [][(/\ CycleStep
        /\ Fetchable(chip8)
        /\ NextWord(chip8) = 224)
        => /\ chip8'.panic = NoPanic
           /\ \A r \in 0..31 : \A c \in 0..63 : chip8'.Display[r][c] = 0
           /\ chip8'.DrawFlag = TRUE
           /\ chip8'.Pc = chip8.Pc + 2
           /\ \A f \in {"Memory", "V", "I", "Stack", "Stack_pointer", "Keypad"} :
                 chip8'[f] = chip8[f]]_vars

\* key k is down: k is one of the 16 keys and its keypad entry is set
KeyDown(m, k) == k < 16 /\ m.Keypad[k] # 0

\* ------------------------------------------------------------------------
\* C24: for every value held in Vx, Ex9E advances Pc by 4 if key Vx is
\* down and by 2 otherwise, and ExA1 advances Pc by 4 if key Vx is up and
\* by 2 otherwise; neither changes a register or the keypad, and neither
\* fails for any register value.
\* ------------------------------------------------------------------------
C24_KeySkips ==
    [][(/\ CycleStep
        /\ Fetchable(chip8)
        /\ Group(NextWord(chip8)) = 14
        /\ NextWord(chip8) % 256 \in {158, 161})
        => LET vx   == chip8.V[(NextWord(chip8) \div 256) % 16]
               skip == IF NextWord(chip8) % 256 = 158
                       THEN KeyDown(chip8, vx) ELSE ~KeyDown(chip8, vx)
           IN  /\ chip8'.panic = NoPanic
               /\ chip8'.Pc = chip8.Pc + (IF skip THEN 4 ELSE 2)
               /\ chip8'.V = chip8.V
               /\ chip8'.Keypad = chip8.Keypad]_vars

\* ------------------------------------------------------------------------
\* C25: while all 16 keypad entries are up, an EmulateCycle at an Fx0A
\* instruction leaves Pc, all V registers, I, memory, stack and display
\* unchanged, so that any number of consecutive calls fetch the same
\* instruction again.
\* ------------------------------------------------------------------------
C25_WaitsForKey ==
    [][(/\ CycleStep
        /\ Fetchable(chip8)
        /\ Group(NextWord(chip8)) = 15
        /\ NextWord(chip8) % 256 = 10
        /\ \A k \in 0..15 : chip8.Keypad[k] = 0)
        => /\ chip8'.panic = NoPanic
           /\ \A f \in {"Pc", "V", "I", "Memory", "Stack", "Stack_pointer",
                        "Display"} : chip8'[f] = chip8[f]
           /\ Fetchable(chip8')
           /\ NextWord(chip8') = NextWord(chip8)]_vars

\* a cycle at F50A has run with every key up: Pc is still at the
\* instruction and V5 still holds 7
C25_Witness ==
    /\ at = "render"
    /\ chip8.Opcode = 62730
    /\ chip8.Pc = 514
    /\ chip8.V[5] = 7
    /\ \A k \in 0..15 : chip8.Keypad[k] = 0
    /\ chip8.panic = NoPanic

\* ------------------------------------------------------------------------
\* C26: when EmulateCycle executes Fx0A with one or more keys down, it
\* stores in Vx the lowest index among the keys that are down (with keys 3
\* and 9 both down, Vx = 3) and advances Pc by 2.
\* ------------------------------------------------------------------------
C26_LowestKey ==
    [][(/\ CycleStep
        /\ Fetchable(chip8)
        /\ Group(NextWord(chip8)) = 15
        /\ NextWord(chip8) % 256 = 10
        /\ \E k \in 0..15 : chip8.Keypad[k] # 0)
        => LET x == (NextWord(chip8) \div 256) % 16
           IN  /\ chip8'.panic = NoPanic
               /\ chip8.Keypad[chip8'.V[x] % 16] # 0
               /\ \A k \in 0..15 : chip8.Keypad[k] # 0 => chip8'.V[x] <= k
               /\ chip8'.Pc = chip8.Pc + 2]_vars

\* the CPU after k further calls of EmulateCycle
RECURSIVE Cycles(_, _)
Cycles(m, k) == IF k = 0 THEN m ELSE EmulateCycle(Cycles(m, k - 1), 0)

\* the call that led to c was one that reaches the timer update and whose
\* instruction does not write the delay timer
TicksOnly(c) ==
    /\ c.panic = NoPanic
    /\ ~(Group(c.Opcode) = 15 /\ c.Opcode % 256 \in {10, 21})

\* ------------------------------------------------------------------------
\* C27: after an Fx15 with Vx = 5 has executed, the delay timer first
\* reaches 0 after exactly 5 subsequent EmulateCycle calls that do not
\* write it: it is non-zero after 0..4 of them and 0 after the fifth.
\* ------------------------------------------------------------------------
C27_DelayCountdown ==
    (/\ at = "render"
     /\ chip8.panic = NoPanic
     /\ Group(chip8.Opcode) = 15
     /\ chip8.Opcode % 256 = 21
     /\ chip8.V[(chip8.Opcode \div 256) % 16] = 5
     /\ \A k \in 1..5 : TicksOnly(Cycles(chip8, k)))
    => /\ \A k \in 0..4 : Cycles(chip8, k).Delay_timer # 0
       /\ Cycles(chip8, 5).Delay_timer = 0

\* ------------------------------------------------------------------------
\* C28: whenever the sound timer is greater than 0 at the timer update of
\* a cycle it is decremented by 1 (so that, set to n > 0 by Fx18 and not
\* written again, it reaches 0 after finitely many calls).  Stated for the
\* cycles whose instruction does not write the sound timer.
\* ------------------------------------------------------------------------
C28_SoundDecrements ==
    [][(/\ CycleStep
        /\ Fetchable(chip8)
        /\ chip8'.panic = NoPanic
        /\ ~(Group(NextWord(chip8)) = 15 /\ NextWord(chip8) % 256 \in {10, 24})
        /\ chip8.Sound_timer > 0)
        => chip8'.Sound_timer = chip8.Sound_timer - 1]_vars

\* the lines "BEEP!" the last call printed
Beeps(c) == Cardinality({i \in 1..Len(c.out) : c.out[i].msg = "BEEP!"})

\* the sound timer when the cycle about to run reaches its timer update
SoundAtTick(c) ==
    IF Group(NextWord(c)) = 15 /\ NextWord(c) % 256 = 24
    THEN c.V[(NextWord(c) \div 256) % 16]
    ELSE c.Sound_timer

\* ------------------------------------------------------------------------
\* C29: a beep is emitted in a cycle if and only if the sound timer goes
\* from 1 to 0 in that cycle's timer update: exactly one beep per such
\* transition, and none in a cycle where the sound timer is 0 or stays
\* above 0.
\* ------------------------------------------------------------------------
C29_BeepOnExpiry ==
    [][(CycleStep /\ Fetchable(chip8))
        => Beeps(chip8') =
              IF SoundAtTick(chip8) = 1 /\ chip8'.Sound_timer = 0
              THEN 1 ELSE 0]_vars

\* F018 has run with V0 = 1: the timer went from 1 to 0 with one beep
C29_Witness ==
    /\ at = "render"
    /\ chip8.Opcode = 61464
    /\ chip8.V[0] = 1
    /\ chip8.Sound_timer = 0
    /\ chip8.out = <<[msg |-> "BEEP!", word |-> 0]>>

\* a cycle has run with the sound timer at 5 throughout, without a beep
C29_WitnessSilent ==
    /\ at = "render"
    /\ chip8.Opcode = 24834
    /\ chip8.Sound_timer = 5
    /\ chip8.out = << >>

\* ------------------------------------------------------------------------
\* C30: for every Vx in 0..255 and I <= 0xFFD, after Fx33 the cells
\* Memory[I], Memory[I+1], Memory[I+2] are each in 0..9 and
\* 100 * Memory[I] + 10 * Memory[I+1] + Memory[I+2] = Vx; Vx, I and every
\* other memory cell are unchanged.
\* ------------------------------------------------------------------------
C30_Bcd ==
    [][(/\ CycleStep
        /\ Fetchable(chip8)
        /\ Group(NextWord(chip8)) = 15
        /\ NextWord(chip8) % 256 = 51
        /\ chip8.I <= 4093)
        => LET vx == chip8.V[(NextWord(chip8) \div 256) % 16]
               i  == chip8.I
           IN  /\ chip8'.panic = NoPanic
               /\ \A d \in 0..2 : chip8'.Memory[i + d] \in 0..9
               /\ 100 * chip8'.Memory[i] + 10 * chip8'.Memory[i + 1]
                     + chip8'.Memory[i + 2] = vx
               /\ chip8'.V = chip8.V
               /\ chip8'.I = i
               /\ \A a \in 0..4095 :
                     a \notin {i, i + 1, i + 2} => chip8'.Memory[a] = chip8.Memory[a]]_vars

\* F333 has run with V3 = 207 and I = 0xFFD: the last three cells hold 2 0 7
C30_Witness ==
    /\ at = "render"
    /\ chip8.Opcode = 62259
    /\ chip8.V[3] = 207
    /\ chip8.I = 4093
    /\ chip8.Memory[4093] = 2
    /\ chip8.Memory[4094] = 0
    /\ chip8.Memory[4095] = 7
    /\ chip8.panic = NoPanic

\* ------------------------------------------------------------------------
\* C31: for every x and I <= 0xFFF - x: Fx55 writes V0..Vx to
\* Memory[I..I+x] and changes no register, no other memory cell and not I;
\* Fx65 loads V0..Vx from Memory[I..I+x] and changes no memory, no
\* register above x and not I; so Fx65 with the same x and I, after any
\* change to V0..Vx, restores V0..Vx to their values at the store.
\* ------------------------------------------------------------------------
C31_StoreLoad ==
    [][(/\ CycleStep
        /\ Fetchable(chip8)
        /\ Group(NextWord(chip8)) = 15
        /\ NextWord(chip8) % 256 \in {85, 101}
        /\ chip8.I + ((NextWord(chip8) \div 256) % 16) <= 4095)
        => LET x == (NextWord(chip8) \div 256) % 16
               i == chip8.I
           IN  /\ chip8'.panic = NoPanic
               /\ chip8'.I = i
               /\ chip8'.Pc = chip8.Pc + 2
               /\ NextWord(chip8) % 256 = 85 =>
                     /\ \A a \in 0..4095 :
                           chip8'.Memory[a] =
                              IF a >= i /\ a <= i + x THEN chip8.V[a - i]
                              ELSE chip8.Memory[a]
                     /\ chip8'.V = chip8.V
                     /\ LET changed == [chip8' EXCEPT
                                           !.V = [r \in 0..15 |->
                                                     IF r <= x THEN 255 - chip8.V[r]
                                                     ELSE chip8.V[r]],
                                           !.Opcode = 61541 + 256 * x]
                        IN  Execute(changed, 0).V = chip8.V
               /\ NextWord(chip8) % 256 = 101 =>
                     /\ \A r \in 0..15 :
                           chip8'.V[r] = IF r <= x THEN chip8.Memory[i + r]
                                         ELSE chip8.V[r]
                     /\ chip8'.Memory = chip8.Memory]_vars

\* F265 at I = 0x300 has brought back V0 = 200 and V1 = 201, overwritten
\* with 99 and 98 after F255 had stored them
C31_Witness ==
    /\ at = "render"
    /\ chip8.Opcode = 62053
    /\ chip8.I = 768
    /\ chip8.V[0] = 200
    /\ chip8.V[1] = 201
    /\ chip8.V[2] = 202
    /\ chip8.V[3] = 77
    /\ chip8.Memory[770] = 202
    /\ chip8.panic = NoPanic

\* FF55 at I = 0xFF0 has stored all 16 registers up to the last cell
C31_WitnessLast ==
    /\ at = "render"
    /\ chip8.Opcode = 65365
    /\ chip8.I = 4080
    /\ chip8.Memory[4080] = 255
    /\ chip8.Memory[4083] = 77
    /\ chip8.Memory[4095] = 0
    /\ chip8.panic = NoPanic

\* the event a key press delivers
Press(sym) == [type |-> "KEYDOWN", sym |-> sym]

KeyTable ==
    [s \in {"1", "2", "3", "4", "q", "w", "e", "r",
            "a", "s", "d", "f", "z", "x", "c", "v"} |->
        CASE s = "1" -> 1  [] s = "2" -> 2  [] s = "3" -> 3  [] s = "4" -> 12
          [] s = "q" -> 4  [] s = "w" -> 5  [] s = "e" -> 6  [] s = "r" -> 13
          [] s = "a" -> 7  [] s = "s" -> 8  [] s = "d" -> 9  [] s = "f" -> 14
          [] s = "z" -> 10 [] s = "x" -> 0  [] s = "c" -> 11 [] s = "v" -> 15]

\* ------------------------------------------------------------------------
\* C33: mapKey gives every key of the README key table the CHIP-8 key the
\* table gives it, which makes it a bijection from these sixteen keys onto
\* 0..F, and gives -1 for every other key; in the event loop a KEYDOWN or
\* KEYUP of a table key sets exactly the entry of its CHIP-8 key, and an
\* event of any other key changes no key state.
\* ------------------------------------------------------------------------
C33_KeyTable ==
    [][at = "poll" /\ Alive =>
         /\ \A s \in DOMAIN KeyTable :
               /\ mapKey(s) = KeyTable[s]
               /\ \A t \in {"KEYDOWN", "KEYUP"} :
                     LET h == HandleEvent(keyStates, [type |-> t, sym |-> s])
                     IN  /\ h.ret = -1
                         /\ h.keyStates =
                              [keyStates EXCEPT ![KeyTable[s]] = (t = "KEYDOWN")]
         /\ {mapKey(s) : s \in DOMAIN KeyTable} = 0..15
         /\ \A s, t \in DOMAIN KeyTable : mapKey(s) = mapKey(t) => s = t
         /\ \A s \in (KeyboardSyms \cup Syms) \ DOMAIN KeyTable :
               /\ mapKey(s) = -1
               /\ HandleEvent(keyStates, [type |-> "KEYUP", sym |-> s]).keyStates
                    = keyStates
               /\ HandleEvent(keyStates, Press(s)).keyStates = keyStates
         /\ (at' = "poll" =>
               \/ keyStates' = keyStates
               \/ \E s \in DOMAIN KeyTable : \E b \in BOOLEAN :
                     keyStates' = [keyStates EXCEPT ![KeyTable[s]] = b])]_vars

\* the CPU was given the key V as key F, and now the key 4 is held
C33_Witness ==
    /\ at = "cycle"
    /\ chip8.Keypad = [k \in 0..15 |-> IF k = 15 THEN 1 ELSE 0]
    /\ keyStates = [NoKeys EXCEPT ![12] = TRUE]

\* the keypad the CPU is to hold for the snapshot ks
KeypadOf(ks) == [k \in 0..15 |-> IF ks[k] THEN 1 ELSE 0]

\* ------------------------------------------------------------------------
\* C34: the emulation loop calls SetKeys exactly once after every
\* EmulateCycle call (cycle, then render, then SetKeys, then the events of
\* the next pass); the call makes every one of the 16 keypad entries 1 or 0
\* as the snapshot has the key down or up and changes nothing else of the
\* CPU; the snapshot changes only in the event loop, and the keypad only in
\* SetKeys.
\* ------------------------------------------------------------------------
C34_SetKeysOncePerCycle ==
    [][/\ (at = "cycle" => at' = "render")
       /\ (at = "render" => at' = "setkeys")
       /\ (at = "setkeys" =>
             /\ at' = "poll"
             /\ chip8'.panic = NoPanic
             /\ chip8'.Keypad = KeypadOf(keyStates)
             /\ chip8' = [chip8 EXCEPT !.Keypad = KeypadOf(keyStates)])
       /\ (at' = "cycle" => at = "poll")
       /\ (at # "setkeys" => chip8'.Keypad = chip8.Keypad)
       /\ (at # "poll" => keyStates' = keyStates)]_vars

\* SetKeys has handed over a snapshot with the keys 3 and 9 down, after the
\* second cycle of a program
C34_Witness ==
    /\ at = "poll"
    /\ keyStates[3] /\ keyStates[9]
    /\ chip8.Keypad = KeypadOf(keyStates)
    /\ chip8.Pc = 516

\* a word of group 0 other than 00E0 and 00EE, or 5xyn or 9xyn with n # 0
Inexact(op) ==
    \/ Group(op) = 0 /\ op \notin {224, 238}
    \/ Group(op) \in {5, 9} /\ N(op) # 0

\* ------------------------------------------------------------------------
\* C35: an EmulateCycle call that fetches a word of group 0 other than 00E0
\* and 00EE, or a word 5xyn or 9xyn with n # 0, treats it as an unknown
\* opcode: the call returns, leaves the display and the stack pointer as
\* they were, and skips no instruction.
\* ------------------------------------------------------------------------
C35_ExactDecoding ==
    [][(/\ CycleStep
        /\ Fetchable(chip8)
        /\ Inexact(NextWord(chip8)))
       => /\ chip8'.panic = NoPanic
          /\ chip8'.Display = chip8.Display
          /\ chip8'.Stack_pointer = chip8.Stack_pointer
          /\ chip8'.Pc # chip8.Pc + 4]_vars

\* ------------------------------------------------------------------------
\* C36: every EmulateCycle call performs the timer tick: a call that finds
\* the delay timer non-zero and whose instruction does not write it
\* returns with the delay timer exactly 1 lower, whatever the instruction,
\* an Fx0A that finds no key down and an unknown opcode included.
\* ------------------------------------------------------------------------
C36_EveryCycleTicks ==
    [][(/\ CycleStep
        /\ Fetchable(chip8)
        /\ chip8.Delay_timer > 0
        /\ ~(Group(NextWord(chip8)) = 15 /\ KK(NextWord(chip8)) = 21))
       => /\ chip8'.panic = NoPanic
          /\ chip8'.Delay_timer = chip8.Delay_timer - 1]_vars

\* ------------------------------------------------------------------------
\* C37: the redraw flag is false whenever EmulateCycle is called; after a
\* cycle that left it set, the caller reads the display (all 32 rows of 64
\* cells are there to be read) and clears the flag, changing nothing else
\* of the CPU, before the next cycle; after a cycle that left it clear the
\* caller changes nothing of the CPU.
\* ------------------------------------------------------------------------
C37_RedrawHandshake ==
    [][/\ (at' = "cycle" => ~chip8'.DrawFlag)
       /\ (at = "cycle" => ~chip8.DrawFlag)
       /\ (at = "render" =>
             /\ at' = "setkeys"
             /\ chip8'.panic = NoPanic
             /\ DOMAIN chip8.Display = 0..31
             /\ \A r \in 0..31 : DOMAIN chip8.Display[r] = 0..63
             /\ ~chip8'.DrawFlag
             /\ chip8' = [chip8 EXCEPT !.DrawFlag = FALSE]
             /\ (~chip8.DrawFlag => chip8' = chip8))
       /\ (at = "setkeys" => chip8'.DrawFlag = chip8.DrawFlag)]_vars

\* a cycle of the ROM "dirty" has drawn and left the flag set
C37_Witness ==
    /\ at = "render"
    /\ chip8.DrawFlag
    /\ Group(chip8.Opcode) = 13

\* the CPU stands at the F50A of the waiting program, at 0x202
Waiting == Alive /\ chip8.Pc = 514 /\ NextWord(chip8) = 62730

\* a cycle has stored a key in V5 and gone past the F50A, or the run ended
Observed ==
    \/ chip8.Pc > 514 /\ chip8.V[5] \in 0..15 /\ chip8.V[5] # 7
    \/ at \in {"exit", "menu"}

\* ------------------------------------------------------------------------
\* C38 as stated: while the CPU waits at Fx0A, every key press the event
\* loop has received (the entry of a mapped key is down in the key states)
\* leads to a cycle that stores a key in Vx and advances Pc (or to the end
\* of the run by Escape, Backspace or a quit event), whatever KEYUP events
\* follow it in the queue.
\* ------------------------------------------------------------------------
C38_EveryPressObserved ==
    (at = "poll" /\ Waiting /\ \E k \in 0..15 : keyStates[k]) ~> Observed

\* the presses that are observed: a key still down when the event loop of a
\* pass has ended reaches the keypad in the SetKeys of that pass, and the
\* cycle of the next pass stores it
C38_HeldPressObserved ==
    (at = "cycle" /\ Waiting /\ \E k \in 0..15 : keyStates[k]) ~> Observed

\* key 3 was seen by the waiting F50A although it has been released since
C38_HeldWitness ==
    /\ at = "render"
    /\ chip8.Opcode = 62730
    /\ chip8.Pc = 516
    /\ chip8.V[5] = 3
    /\ keyStates = NoKeys

\* ------------------------------------------------------------------------
\* C39: after any sequence of presses of i, p, j and l in the ROM menu,
\* delay is a multiple of 100 in 100..1000 and target_fps is a multiple of
\* 5 in 5..100, so the division delay / target_fps of the emulation loop
\* is always defined and the loop never fails on it.
\* ------------------------------------------------------------------------
C39_PacingInRange ==
    /\ delay \in {100 * i : i \in 1..10}
    /\ target_fps \in {5 * i : i \in 1..20}
    /\ at # "crash"

\* the instruction words that read the keypad: Ex9E, ExA1 and Fx0A
ReadsKeys(op) ==
    \/ Group(op) = 14 /\ KK(op) \in {158, 161}
    \/ Group(op) = 15 /\ KK(op) = 10

\* keypads to run a cycle with: no key down, every key down, key 9 down
SampleKeypads ==
    {[k \in 0..15 |-> 0], [k \in 0..15 |-> 1], [k \in 0..15 |-> IF k = 9 THEN 1 ELSE 0]}

\* ------------------------------------------------------------------------
\* C40: no EmulateCycle call modifies the keypad, and the keypad acts on
\* the machine through Ex9E, ExA1 and Fx0A only: for any other instruction
\* word, the call started from the same state with another keypad, and
\* with the same random byte, ends in the same state but for the keypad.
\* ------------------------------------------------------------------------
C40_KeypadNonInterference ==
    [][CycleStep =>
         /\ chip8'.Keypad = chip8.Keypad
         /\ \A kp \in SampleKeypads : \A rnd \in {0, 255} :
               LET other == EmulateCycle([chip8 EXCEPT !.Keypad = kp], rnd)
               IN  /\ other.Keypad = kp
                   /\ (Fetchable(chip8) /\ ~ReadsKeys(NextWord(chip8)) =>
                         other = [EmulateCycle(chip8, rnd) EXCEPT !.Keypad = kp])]_vars

\* Fx18 has set the sound timer while the keys 3 and 9 were down
C40_Witness ==
    /\ at = "render"
    /\ chip8.Opcode = 61464
    /\ chip8.Keypad[3] = 1 /\ chip8.Keypad[9] = 1
    /\ chip8.Sound_timer = 3

====
